---- MODULE Spec2Model ----
(***************************************************************************)
(* A model of the middle end of the esocc compiler: the linear IR, the     *)
(* control-flow graph builder, the dominance analysis, the SSA builder and *)
(* the graph-colouring register allocator.  Every stage is an operator     *)
(* computed the way the Python source computes it; an action applies one   *)
(* stage to the compilation state.                                         *)
(***************************************************************************)
EXTENDS Integers, Sequences, FiniteSets, TLC

VARIABLES
    insts,      \* the linear instruction list handed to build_graph
    numColors,  \* the colour budget K handed to allocate
    phase,      \* position of the driver in the pipeline
    cfg,        \* the ControlFlowGraph (blocks, root, type)
    dom,        \* the DomAnalysis result of DomAnalyzer.analyze
    ssa,        \* the renaming state of SsaBuilder (counters, stacks)
    alloc,      \* the state of BasicRegisterAllocator
    rounds,     \* the iterations made so far by the loop of allocate, or of optimize
    tr,         \* the Dcpu16Translator the driver keeps for all procedures
    peep,       \* the text handed to Dcpu16PeepholeOptimizer and its result
    lnk,        \* the Dcpu16Linker and the driver's link stage
    opc         \* an IrOpcode member and what its projections returned

\* the back end: code generation, peephole optimizer, linker
backend == <<tr, peep, lnk>>

vars == <<insts, numColors, phase, cfg, dom, ssa, alloc, rounds, tr, peep, lnk, opc>>

(***************************************************************************)
(* Bounds of the model.                                                    *)
(***************************************************************************)
MaxLen == 4        \* longest instruction list of the CFG/dominance runs
MaxSsaLen == 4     \* longest instruction list of the SSA runs
MaxAllocLen == 4   \* longest instruction list of the allocation runs
MaxK == 2          \* largest colour budget
MaxRounds == 4     \* cap on the spill rounds of allocate

(***************************************************************************)
(* Small helpers.                                                          *)
(***************************************************************************)
Max(S) == CHOOSE x \in S : \A y \in S : y <= x
Min(S) == CHOOSE x \in S : \A y \in S : x <= y
Range(s) == {s[i] : i \in 1..Len(s)}

RECURSIVE SetToSeq(_)
\* a set of integers in increasing order (CPython iterates a set of small
\* non-negative integers in increasing order)
SetToSeq(S) == IF S = {} THEN <<>> ELSE <<Min(S)>> \o SetToSeq(S \ {Min(S)})

RECURSIVE Concat(_)
Concat(ss) == IF ss = <<>> THEN <<>> ELSE Head(ss) \o Concat(Tail(ss))

\* the function f with its values computed once, where it is built
Computed(f) == f @@ <<>>

\* TRUE; it makes TLC compute x here, so that a loop's accumulator is a value
\* at every iteration and not a chain of suspended updates
Evaluated(x) == x = x

(***************************************************************************)
(* ir.py: operands.  A variable id packs (base, subscript, special).       *)
(***************************************************************************)
NoOpr == [k |-> "none", b |-> 0, s |-> 0, p |-> 0]
IrConst == [k |-> "const", b |-> 0, s |-> 0, p |-> 0]
IrName == [k |-> "name", b |-> 0, s |-> 0, p |-> 0]
IrOffset(off) == [k |-> "off", b |-> off, s |-> 0, p |-> 0]
IrBlockRef(id) == [k |-> "blk", b |-> id, s |-> 0, p |-> 0]
IrVar(id) == [k |-> "var", b |-> id[1], s |-> id[2], p |-> id[3]]

make_var_id(base, subscript, special) == <<base, subscript, special>>
var_base(id) == id[1]
var_subscript(id) == id[2]
var_special(id) == id[3]
get_id(opr) == <<opr.b, opr.s, opr.p>>
IsVar(opr) == opr.k = "var"

\* the order of the packed integers base | subscript << 16 | special << 32
IdLess(a, b) ==
    \/ var_special(a) < var_special(b)
    \/ var_special(a) = var_special(b) /\ var_subscript(a) < var_subscript(b)
    \/ var_special(a) = var_special(b) /\ var_subscript(a) = var_subscript(b)
       /\ var_base(a) < var_base(b)

RECURSIVE SortIds(_)
\* a set of ids in increasing order of the packed integers
SortIds(S) ==
    IF S = {} THEN <<>>
    ELSE LET m == CHOOSE x \in S : \A y \in S \ {x} : IdLess(x, y)
         IN <<m>> \o SortIds(S \ {m})

Inst(op, o0, o1, o2, extra) == [op |-> op, oprs |-> <<o0, o1, o2>>, extra |-> extra]

(***************************************************************************)
(* ir.py: the opcode projections.                                          *)
(***************************************************************************)
is_opcode_assign(op) ==
    op \in {"ASSIGN", "ASSIGN_ADD", "ASSIGN_SUB", "ASSIGN_MUL", "ASSIGN_DIV",
            "ASSIGN_MOD", "ASSIGN_SIGNED_ADD", "ASSIGN_SIGNED_SUB",
            "ASSIGN_SIGNED_MUL", "ASSIGN_SIGNED_DIV", "ASSIGN_SIGNED_MOD",
            "ASSIGN_OR", "ASSIGN_AND", "ASSIGN_XOR", "ASSIGN_READ",
            "ASSIGN_ADDROF", "ASSIGN_CALL", "ASSIGN_PHI"}

get_opcode_class(op) ==
    CASE op \in {"UNDEF", "RETN", "LOAD", "STORE", "UNLOAD"} -> "NONE"
      [] op \in {"ASSIGN", "ASSIGN_READ", "ASSIGN_ADDROF"} -> "ASSIGN2"
      [] op \in {"ASSIGN_ADD", "ASSIGN_SUB", "ASSIGN_MUL", "ASSIGN_DIV",
                 "ASSIGN_MOD", "ASSIGN_SIGNED_ADD", "ASSIGN_SIGNED_SUB",
                 "ASSIGN_SIGNED_MUL", "ASSIGN_SIGNED_DIV", "ASSIGN_SIGNED_MOD",
                 "ASSIGN_OR", "ASSIGN_AND", "ASSIGN_XOR"} -> "ASSIGN3"
      [] op \in {"RET", "JMP", "JE", "JNE", "JL", "JLE", "JG", "JGE"} -> "USE1"
      [] op \in {"CMP", "WRITE"} -> "USE2"
      [] op = "ASSIGN_CALL" -> "ASSIGN_CALL"
      [] op = "ASSIGN_PHI" -> "ASSIGN_FIXED_CALL"
      [] op = "CALL" -> "CALL"
      [] OTHER -> "KeyError"

get_operand_count(op) ==
    CASE get_opcode_class(op) = "ASSIGN_CALL" -> 2
      [] get_opcode_class(op) = "ASSIGN_FIXED_CALL" -> 1
      [] get_opcode_class(op) = "NONE" -> 0
      [] get_opcode_class(op) = "USE1" -> 1
      [] get_opcode_class(op) = "USE2" -> 2
      [] get_opcode_class(op) = "ASSIGN2" -> 2
      [] get_opcode_class(op) = "ASSIGN3" -> 3
      [] get_opcode_class(op) = "CALL" -> 1
      [] OTHER -> -1

has_extra_operands(op) ==
    get_opcode_class(op) \in {"ASSIGN_CALL", "ASSIGN_FIXED_CALL", "CALL"}

\* the operand slots opr_start .. opr_end-1 that the analyses treat as reads
ReadSlots(op) ==
    {i \in 1..3 : i - 1 >= (IF is_opcode_assign(op) THEN 1 ELSE 0)
                  /\ i - 1 < get_operand_count(op)}

(***************************************************************************)
(* control_flow.py: build_graph.  Instruction indices are 0-based as in    *)
(* the source; insts[i + 1] is the instruction at index i.                 *)
(***************************************************************************)
_is_branch_instruction(inst) ==
    inst.op \in {"JMP", "JE", "JNE", "JL", "JLE", "JG", "JGE"}

_is_end_instruction(inst) == inst.op \in {"RET", "RETN"}

get_offset(inst) == inst.oprs[1].b

\* leaders[j] = True with a Python list of length n: a negative j in
\* [-n, -1] addresses element j + n, anything else outside [0, n) raises.
PyIndexOk(j, n) == j >= -n /\ j < n
PyIndex(j, n) == IF j < 0 THEN j + n ELSE j

\* the leader-marking loop raises IndexError
LeadersRaise(L) ==
    \E i \in 0..(Len(L) - 1) :
        /\ _is_branch_instruction(L[i + 1])
        /\ ~PyIndexOk(i + 1 + get_offset(L[i + 1]), Len(L))

\* leaders without the branch targets
LeadersAfterOnly(L) ==
    {0}
    \cup {i + 1 : i \in {j \in 0..(Len(L) - 2) :
                           _is_branch_instruction(L[j + 1])
                           \/ _is_end_instruction(L[j + 1])}}

Leaders(L) ==
    {0}
    \cup {i + 1 : i \in {j \in 0..(Len(L) - 2) :
                           _is_branch_instruction(L[j + 1])
                           \/ _is_end_instruction(L[j + 1])}}
    \cup {PyIndex(i + 1 + get_offset(L[i + 1]), Len(L)) :
            i \in {j \in 0..(Len(L) - 1) : _is_branch_instruction(L[j + 1])}}

\* start indices of the blocks, in traversal order; block k gets id k
BlockStarts(L) == SetToSeq(Leaders(L))

\* st is BlockStarts(L) in the operators below
BlockEnd(L, st, k) == IF k < Len(st) THEN st[k + 1] ELSE Len(L)

BlockInsts(L, st, k) == SubSeq(L, st[k] + 1, BlockEnd(L, st, k))

\* the id of the block that starts at index idx, 0 when there is none
BlockAt(st, idx) ==
    IF \E k \in 1..Len(st) : st[k] = idx
    THEN CHOOSE k \in 1..Len(st) : st[k] = idx
    ELSE 0

\* target of the branch that ends block k (0: no branch or target not a block)
BranchTarget(L, st, k) ==
    LET last == L[BlockEnd(L, st, k)]
    IN IF _is_branch_instruction(last)
       THEN BlockAt(st, BlockEnd(L, st, k) + get_offset(last))
       ELSE 0

FallTarget(L, st, k) ==
    LET last == L[BlockEnd(L, st, k)]
    IN IF last.op # "JMP" /\ ~_is_end_instruction(last)
       THEN BlockAt(st, BlockEnd(L, st, k))
       ELSE 0

\* the edges block k adds, in the order the link loop appends them
EdgesOf(L, st, k) ==
    LET bt == BranchTarget(L, st, k)
        ft == FallTarget(L, st, k)
    IN (IF bt # 0 THEN <<bt>> ELSE <<>>) \o (IF ft # 0 THEN <<ft>> ELSE <<>>)

RECURSIVE PrevOf(_, _, _)
\* the predecessor list of block t from the edge lists of blocks k.. : the
\* sources in block order, one entry per add_prev
PrevOf(edges, t, k) ==
    IF k > Len(edges) THEN <<>>
    ELSE [i \in 1..Len(SelectSeq(edges[k], LAMBDA x : x = t)) |-> k]
         \o PrevOf(edges, t, k + 1)

RewriteLast(L, st, k) ==
    LET body == BlockInsts(L, st, k)
        last == body[Len(body)]
        bt == BranchTarget(L, st, k)
    IN IF bt # 0
       THEN [body EXCEPT ![Len(body)] =
                [last EXCEPT !.oprs = [last.oprs EXCEPT ![1] = IrBlockRef(bt)]]]
       ELSE body

EmptyCfg ==
    [blocks |-> <<[id |-> 1, insts |-> <<>>, prev |-> <<>>, next |-> <<>>]>>,
     root |-> 1, type |-> "normal"]

build_graph(L) ==
    IF Len(L) = 0 THEN EmptyCfg
    ELSE LET st == BlockStarts(L)
             edges == [k \in 1..Len(st) |-> EdgesOf(L, st, k)]
         IN [blocks |-> [k \in 1..Len(st) |->
                           [id |-> k,
                            insts |-> RewriteLast(L, st, k),
                            prev |-> PrevOf(edges, k, 1),
                            next |-> edges[k]]],
             root |-> 1,
             type |-> "normal"]

BlockIds(g) == 1..Len(g.blocks)
find_block(g, id) == g.blocks[id]

(***************************************************************************)
(* data_flow.py: IterativeAnalyzer._solve and DomAnalyzer.                 *)
(* A fragment map gives every block id its current dominator set.          *)
(***************************************************************************)
DomInitFragment(g, id) == IF g.root = id THEN {id} ELSE BlockIds(g)

RECURSIVE InterPrevs(_, _, _)
\* set(frags[prevs[0]]) filtered by the fragments of prevs[1:]
InterPrevs(frags, prevs, i) ==
    IF i > Len(prevs) THEN frags[prevs[1]]
    ELSE InterPrevs(frags, prevs, i + 1) \cap frags[prevs[i]]

DomComputeFragment(frags, blk) ==
    (IF Len(blk.prev) # 0 THEN InterPrevs(frags, blk.prev, 2) ELSE {}) \cup {blk.id}

RECURSIVE DomSweep(_, _, _)
\* one pass of the while-changed loop: blocks in insertion order, every
\* fragment updated in place before the next block reads it
DomSweep(g, frags, i) ==
    IF Evaluated(frags) /\ i > Len(g.blocks) THEN frags
    ELSE DomSweep(g, [frags EXCEPT ![i] = DomComputeFragment(frags, g.blocks[i])], i + 1)

RECURSIVE DomSolve(_, _, _)
\* the fixed point of the passes; fuel 0 left means the loop is still running
DomSolve(g, frags, fuel) ==
    LET nxt == DomSweep(g, frags, 1)
    IN IF nxt = frags THEN [frags |-> frags, st |-> "ok"]
       ELSE IF fuel = 0 THEN [frags |-> frags, st |-> "diverge"]
       ELSE DomSolve(g, nxt, fuel - 1)

SolveFuel(g) == 2 * Len(g.blocks) + 2

\* _compute_idoms: the dominators of blk that no other dominator of blk is
\* dominated by; set_idom is called for each in set-iteration order, so the
\* largest id stays (0: set_idom never called, get_idom would assert)
IdomCandidates(doms, b) ==
    {d \in doms[b] \ {b} :
        ~\E o \in doms[b] \ {b, d} : d \in doms[o]}

_compute_idoms(g, doms) ==
    [b \in BlockIds(g) |->
        IF IdomCandidates(doms, b) = {} THEN 0 ELSE Max(IdomCandidates(doms, b))]

RECURSIVE IdomWalk(_, _, _, _)
\* the while loop of _compute_dfs from curr up to (not including) stop:
\* the blocks it passes, and how it ends
IdomWalk(idom, curr, stop, fuel) ==
    IF curr = stop THEN [seen |-> {}, st |-> "ok"]
    ELSE IF idom[curr] = 0 THEN [seen |-> {curr}, st |-> "assert"]
    ELSE IF fuel = 0 THEN [seen |-> {curr}, st |-> "diverge"]
    ELSE LET rest == IdomWalk(idom, idom[curr], stop, fuel - 1)
         IN [seen |-> {curr} \cup rest.seen, st |-> rest.st]

\* the walks _compute_dfs makes, in execution order: <<block, walk>>
DfWalks(g, idom) ==
    Concat([b \in BlockIds(g) |->
        IF Len(g.blocks[b].prev) > 1
        THEN IF idom[b] = 0
             THEN <<[blk |-> b, seen |-> {}, st |-> "assert"]>>
             ELSE [i \in 1..Len(g.blocks[b].prev) |->
                     LET w == IdomWalk(idom, g.blocks[b].prev[i], idom[b], Len(g.blocks))
                     IN [blk |-> b, seen |-> w.seen, st |-> w.st]]
        ELSE <<>>])

RECURSIVE FirstBad(_, _)
FirstBad(walks, i) ==
    IF i > Len(walks) THEN "ok"
    ELSE IF walks[i].st # "ok" THEN walks[i].st
    ELSE FirstBad(walks, i + 1)

_compute_dfs(g, idom) ==
    LET walks == Range(DfWalks(g, idom))
    IN [a \in BlockIds(g) |-> {w.blk : w \in {x \in walks : a \in x.seen}}]

\* DomAnalyzer.analyze: st is "ok" when a DomAnalysis is returned
DomAnalyze(g) ==
    LET sol == DomSolve(g, [id \in BlockIds(g) |-> DomInitFragment(g, id)], SolveFuel(g))
        idom == _compute_idoms(g, sol.frags)
        walks == DfWalks(g, idom)
    IN IF sol.st # "ok"
       THEN [st |-> sol.st, doms |-> sol.frags, idom |-> idom, df |-> [a \in BlockIds(g) |-> {}]]
       ELSE [st |-> FirstBad(walks, 1),
             doms |-> sol.frags,
             idom |-> idom,
             df |-> _compute_dfs(g, idom)]

get_dfs(d, id) == d.df[id]
get_block(d, id) == d.doms[id]

NoDom == [st |-> "none", doms |-> <<>>, idom |-> <<>>, df |-> <<>>]
NoCfg == [blocks |-> <<>>, root |-> 0, type |-> "none"]
NoSsa == [st |-> "none"]
NoAlloc == [st |-> "none"]
NoTr == [st |-> "none"]
NoOpc == [st |-> "none"]
NoPeep == [st |-> "none"]
NoLnk == [st |-> "none"]

(***************************************************************************)
(* The instruction lists the runs start from.                              *)
(***************************************************************************)
V(b) == IrVar(make_var_id(b, 0, 0))
Asg(d) == Inst("ASSIGN", V(d), IrConst, NoOpr, <<>>)
Cp(d, a) == Inst("ASSIGN", V(d), V(a), NoOpr, <<>>)
Add(d, a, b) == Inst("ASSIGN_ADD", V(d), V(a), V(b), <<>>)
Jmp(off) == Inst("JMP", IrOffset(off), NoOpr, NoOpr, <<>>)
Je(off) == Inst("JE", IrOffset(off), NoOpr, NoOpr, <<>>)
Ret(a) == Inst("RET", V(a), NoOpr, NoOpr, <<>>)
Retn == Inst("RETN", NoOpr, NoOpr, NoOpr, <<>>)

\* branches of a list of length n at index i whose target index lies in lo..hi
Branches(i, lo, hi) ==
    {Jmp(t - (i + 1)) : t \in lo..hi} \cup {Je(t - (i + 1)) : t \in lo..hi}

RECURSIVE ListsFrom(_, _, _)
\* all lists of instructions for the indices i .. n-1 of a list of length n,
\* the instruction at index j taken from alpha[j]
ListsFrom(alpha, n, i) ==
    IF i >= n THEN {<<>>}
    ELSE {<<x>> \o r : x \in alpha[i], r \in ListsFrom(alpha, n, i + 1)}

ListsOver(alpha, n) == ListsFrom(alpha, n, 0)

\* CFG runs: one variable, returns, and branches to every index from one
\* below the list to one beyond it
CfgAlphabet(n) == [i \in 0..(n - 1) |-> {Asg(1), Retn} \cup Branches(i, -1, n)]
CfgPrograms(m) == UNION {ListsOver(CfgAlphabet(n), n) : n \in 0..m}

(***************************************************************************)
(* The driver: main.py and Dcpu16Translator.translate_procedure run the    *)
(* stages in this order on every procedure.                                *)
(***************************************************************************)
InitCfg ==
    /\ insts \in CfgPrograms(MaxLen)
    /\ opc = NoOpc
    /\ numColors = 0
    /\ phase = "input"
    /\ cfg = NoCfg
    /\ dom = NoDom
    /\ ssa = NoSsa
    /\ alloc = NoAlloc
    /\ rounds = 0
    /\ tr = NoTr /\ peep = NoPeep /\ lnk = NoLnk

\* make_cfg(proc.get_body())
BuildGraph ==
    /\ phase = "input"
    /\ IF LeadersRaise(insts)
       THEN /\ phase' = "cfg_error"
            /\ cfg' = cfg
       ELSE /\ phase' = "cfg"
            /\ cfg' = build_graph(insts)
    /\ UNCHANGED <<insts, numColors, dom, ssa, alloc, rounds, backend, opc>>

\* DomAnalyzer().analyze(cfg)
Analyze ==
    /\ phase = "cfg"
    /\ dom' = DomAnalyze(cfg)
    /\ phase' = "dom"
    /\ UNCHANGED <<insts, numColors, cfg, ssa, alloc, rounds, backend, opc>>

NextCfg == BuildGraph \/ Analyze

SpecCfg == InitCfg /\ [][NextCfg]_vars

(***************************************************************************)
(* Properties of build_graph and DomAnalyzer.analyze, checked on SpecCfg.  *)
(***************************************************************************)
LastInst(blk) == blk.insts[Len(blk.insts)]

RECURSIVE ReachFrom(_, _)
\* the blocks that can be reached from the blocks of seen along next edges
ReachFrom(g, seen) ==
    LET more == seen \cup UNION {Range(g.blocks[b].next) : b \in seen}
    IN IF more = seen THEN seen ELSE ReachFrom(g, more)

Reachable(g) == ReachFrom(g, {g.root})

\* C8: in every CFG build_graph returns, each successor S of a block B is a
\* block of the CFG that lists B among its predecessors, and the last
\* instruction of every block ending in a branch has as operand 0 an
\* IrBlockRef naming a block of the CFG (no IrOffset is left).
CfgWellFormed ==
    phase \in {"cfg", "dom"} =>
        /\ \A B \in BlockIds(cfg) : \A S \in Range(cfg.blocks[B].next) :
              S \in BlockIds(cfg) /\ B \in Range(cfg.blocks[S].prev)
        /\ \A B \in BlockIds(cfg) :
              (Len(cfg.blocks[B].insts) > 0
               /\ _is_branch_instruction(LastInst(cfg.blocks[B])))
              => /\ LastInst(cfg.blocks[B]).oprs[1].k = "blk"
                 /\ LastInst(cfg.blocks[B]).oprs[1].b \in BlockIds(cfg)

\* C9: whenever analyze returns, also for a CFG whose root has predecessors,
\* dominators(root) = {root}, root dominates every block reachable from it,
\* root has no idom, and the idom chain of every reachable non-root block
\* arrives at root (no block without idom and no cycle on the way).
DominanceTree ==
    (phase = "dom" /\ dom.st = "ok") =>
        /\ get_block(dom, cfg.root) = {cfg.root}
        /\ \A B \in Reachable(cfg) : cfg.root \in get_block(dom, B)
        /\ dom.idom[cfg.root] = 0
        /\ \A B \in Reachable(cfg) \ {cfg.root} :
              IdomWalk(dom.idom, B, cfg.root, Len(cfg.blocks)).st = "ok"

\* C10: whenever analyze returns, for all blocks A and B, B is in get_dfs(A)
\* exactly when A dominates some predecessor of B and A does not strictly
\* dominate B; B may have a single predecessor and may be the root.
FrontierIff ==
    (phase = "dom" /\ dom.st = "ok") =>
        \A A \in BlockIds(cfg), B \in BlockIds(cfg) :
            B \in get_dfs(dom, A)
            <=> /\ \E P \in Range(cfg.blocks[B].prev) : A \in get_block(dom, P)
                /\ ~(A # B /\ A \in get_block(dom, B))

(***************************************************************************)
(* ssa.py: SsaBuilder.  The input holds unrenamed variable ids (subscript  *)
(* 0, special 0), for which the id and make_var_id(var_base(id)) coincide; *)
(* _counters and _stacks are keyed by these ids.                           *)
(***************************************************************************)
Defines(inst) == is_opcode_assign(inst.op) /\ IsVar(inst.oprs[1])

\* the operands the loops over oprs[opr_start:opr_end] and extra visit
ReadOprs(inst) ==
    [i \in 1..Cardinality(ReadSlots(inst.op)) |->
        inst.oprs[SetToSeq(ReadSlots(inst.op))[i]]]
    \o (IF has_extra_operands(inst.op) THEN inst.extra ELSE <<>>)

ReadVars(inst) == {get_id(o) : o \in {x \in Range(ReadOprs(inst)) : IsVar(x)}}

KillBefore(body, i) == {get_id(body[j].oprs[1]) : j \in {k \in 1..(i - 1) : Defines(body[k])}}

\* _find_globals: the ids read in some block before the block assigns them,
\* and for every id the blocks that assign it
FindGlobals(g) ==
    UNION {UNION {ReadVars(g.blocks[b].insts[i]) \ KillBefore(g.blocks[b].insts, i) :
                    i \in 1..Len(g.blocks[b].insts)} : b \in BlockIds(g)}

DefBlocks(g, var) ==
    {b \in BlockIds(g) : \E i \in 1..Len(g.blocks[b].insts) :
        Defines(g.blocks[b].insts[i]) /\ get_id(g.blocks[b].insts[i].oprs[1]) = var}

VarIds(g) ==
    UNION {UNION {ReadVars(g.blocks[b].insts[i])
                  \cup (IF Defines(g.blocks[b].insts[i])
                        THEN {get_id(g.blocks[b].insts[i].oprs[1])} ELSE {}) :
                    i \in 1..Len(g.blocks[b].insts)} : b \in BlockIds(g)}

\* _define_initial_names: one _new_name for every global the root block
\* does not assign
UndefGlobals(g) == FindGlobals(g) \ KillBefore(g.blocks[g.root].insts, Len(g.blocks[g.root].insts) + 1)

RECURSIVE PhiClosure(_, _, _)
\* the blocks the work list of _insert_phi_functions gives a phi for one
\* variable: the dominance frontiers of its defining blocks, iterated
PhiClosure(d, defs, have) ==
    LET more == have \cup UNION {get_dfs(d, b) : b \in defs \cup have}
    IN IF more = have THEN have ELSE PhiClosure(d, defs, more)

PhiBlocks(g, d, var) == PhiClosure(d, DefBlocks(g, var), {})

\* emit_assign_phi(IrVar(var)) with one extra IrVar(var) per predecessor
Phi(var, n) == Inst("ASSIGN_PHI", IrVar(var), NoOpr, NoOpr, [i \in 1..n |-> IrVar(var)])

\* the phis pushed to the front of block b, in the order the globals are met
PhisOf(g, d, b) ==
    LET vs == SortIds(FindGlobals(g))
    IN SelectSeq([i \in 1..Len(vs) |-> Phi(vs[i], Len(g.blocks[b].prev))],
                 LAMBDA p : b \in PhiBlocks(g, d, get_id(p.oprs[1])))

_insert_phi_functions(g, d) ==
    [b \in BlockIds(g) |-> PhisOf(g, d, b) \o g.blocks[b].insts]

\* make_var_id(var, stk[-1]): the subscript is or-ed into an unrenamed id
Renamed(var, sub) == make_var_id(var_base(var), sub, var_special(var))

\* the key make_var_id(var_base(var)) of the phi-fill and pop lookups
StackKey(var) == make_var_id(var_base(var), 0, 0)

Top(stk) == stk[Len(stk)]

\* _new_name(base): S with the counter bumped and the new index pushed
_new_name(S, base) ==
    [S EXCEPT !.counters[base] = @ + 1,
              !.stacks[base] = Append(@, S.counters[base] + 1)]

\* the renaming state before _define_initial_names
RenameInit(g, body) ==
    [blocks |-> body,
     counters |-> [v \in VarIds(g) |-> 0],
     stacks |-> [v \in VarIds(g) |-> <<>>],
     exit |-> [b \in BlockIds(g) |-> [v \in VarIds(g) |-> <<>>]],
     st |-> "ok"]

RECURSIVE DefineNames(_, _)
DefineNames(S, todo) ==
    IF Evaluated(S) /\ todo = <<>> THEN S ELSE DefineNames(_new_name(S, Head(todo)), Tail(todo))

_define_initial_names(S, g) == DefineNames(S, SortIds(UndefGlobals(g)))

\* the lookup self._stacks[var] followed by the assertion on its length:
\* a key is present once _new_name has been called for it
StackLookup(S, key) ==
    IF key \notin DOMAIN S.counters \/ S.counters[key] = 0 THEN "KeyError"
    ELSE IF S.stacks[key] = <<>> THEN "assert"
    ELSE "ok"

RECURSIVE FirstError(_, _, _)
\* the first read operand of oprs[i..] whose lookup fails
FirstError(S, oprs, i) ==
    IF i > Len(oprs) THEN "ok"
    ELSE IF IsVar(oprs[i]) /\ StackLookup(S, get_id(oprs[i])) # "ok"
         THEN StackLookup(S, get_id(oprs[i]))
         ELSE FirstError(S, oprs, i + 1)

RenameOpr(S, opr) ==
    IF IsVar(opr) THEN IrVar(Renamed(get_id(opr), Top(S.stacks[get_id(opr)]))) ELSE opr

RenameReads(S, inst) ==
    [inst EXCEPT
        !.oprs = [i \in 1..3 |-> IF i \in ReadSlots(inst.op)
                                 THEN RenameOpr(S, inst.oprs[i]) ELSE inst.oprs[i]],
        !.extra = IF has_extra_operands(inst.op)
                  THEN [i \in 1..Len(inst.extra) |-> RenameOpr(S, inst.extra[i])]
                  ELSE inst.extra]

\* inst.oprs[0].set_id(self._new_name(inst.oprs[0].get_id())) on
\* instruction i of block b
RenameDest(S, b, i) ==
    LET var == get_id(S.blocks[b][i].oprs[1])
        S1 == _new_name(S, var)
    IN [S1 EXCEPT !.blocks[b][i].oprs[1] = IrVar(Renamed(var, Top(S1.stacks[var])))]

RECURSIVE RenameInsts(_, _, _)
\* the first loop of _rename_block over the instructions i.. of block b
RenameInsts(S, b, i) ==
    IF S.st # "ok" \/ i > Len(S.blocks[b]) THEN S
    ELSE LET inst == S.blocks[b][i]
         IN IF inst.op = "ASSIGN_PHI" THEN RenameInsts(RenameDest(S, b, i), b, i + 1)
            ELSE IF FirstError(S, ReadOprs(inst), 1) # "ok"
            THEN [S EXCEPT !.st = FirstError(S, ReadOprs(inst), 1)]
            ELSE LET S1 == [S EXCEPT !.blocks[b][i] = RenameReads(S, inst)]
                 IN RenameInsts(IF Defines(inst) THEN RenameDest(S1, b, i) ELSE S1,
                                b, i + 1)

\* idx of the fill loop: the first position of blk in the predecessor list
\* of the successor (0-based 0 when absent)
FirstPrevIndex(g, nxt, blk) ==
    IF \E i \in 1..Len(g.blocks[nxt].prev) : g.blocks[nxt].prev[i] = blk
    THEN Min({i \in 1..Len(g.blocks[nxt].prev) : g.blocks[nxt].prev[i] = blk})
    ELSE 1

RECURSIVE FillPhi(_, _, _, _)
\* the phi instructions i.. at the top of block nxt get argument idx renamed
FillPhi(S, nxt, idx, i) ==
    IF S.st # "ok" \/ i > Len(S.blocks[nxt]) THEN S
    ELSE IF S.blocks[nxt][i].op # "ASSIGN_PHI" THEN S
    ELSE LET var == get_id(S.blocks[nxt][i].extra[idx])
             key == StackKey(var)
         IN IF StackLookup(S, key) # "ok" THEN [S EXCEPT !.st = StackLookup(S, key)]
            ELSE FillPhi([S EXCEPT !.blocks[nxt][i].extra[idx] =
                              IrVar(make_var_id(var_base(var), Top(S.stacks[key]), 0))],
                         nxt, idx, i + 1)

RECURSIVE FillSuccessors(_, _, _, _)
\* the loop over blk.get_next(), from entry k on
FillSuccessors(S, g, blk, k) ==
    IF S.st # "ok" \/ k > Len(g.blocks[blk].next) THEN S
    ELSE FillSuccessors(
            FillPhi(S, g.blocks[blk].next[k],
                    FirstPrevIndex(g, g.blocks[blk].next[k], blk), 1),
            g, blk, k + 1)

RECURSIVE PopDefs(_, _, _)
\* the last loop of _rename_block: one pop per assigning instruction
PopDefs(S, b, i) ==
    IF Evaluated(S) /\ i > Len(S.blocks[b]) THEN S
    ELSE IF Defines(S.blocks[b][i])
              /\ S.stacks[StackKey(get_id(S.blocks[b][i].oprs[1]))] # <<>>
         THEN PopDefs([S EXCEPT !.stacks[StackKey(get_id(S.blocks[b][i].oprs[1]))] =
                           SubSeq(@, 1, Len(@) - 1)],
                      b, i + 1)
         ELSE PopDefs(S, b, i + 1)

RECURSIVE _rename_block(_, _, _, _)
RECURSIVE RenameChildren(_, _, _, _, _)
\* the recursion loop of _rename_block over the blocks b.. of the CFG
RenameChildren(S, g, d, blk, b) ==
    IF S.st # "ok" \/ b > Len(g.blocks) THEN S
    ELSE IF b = blk \/ b = g.root THEN RenameChildren(S, g, d, blk, b + 1)
    ELSE IF d.idom[b] = 0 THEN [S EXCEPT !.st = "assert"]
    ELSE IF d.idom[b] = blk
         THEN RenameChildren(_rename_block(S, g, d, b), g, d, blk, b + 1)
         ELSE RenameChildren(S, g, d, blk, b + 1)

\* exit[blk] records the stacks at the end of blk's own instructions, the
\* state the fill loop reads
_rename_block(S, g, d, blk) ==
    LET S1 == RenameInsts(S, blk, 1)
        S2 == [S1 EXCEPT !.exit[blk] = S1.stacks]
        S3 == FillSuccessors(S2, g, blk, 1)
        S4 == RenameChildren(S3, g, d, blk, 1)
    IN IF S4.st # "ok" THEN S4 ELSE PopDefs(S4, blk, 1)

\* SsaBuilder.transform on the CFG g: the renaming state at the end
transform(g) ==
    LET d == DomAnalyze(g)
    IN IF d.st # "ok" THEN [RenameInit(g, [b \in BlockIds(g) |-> g.blocks[b].insts])
                              EXCEPT !.st = d.st]
       ELSE _rename_block(
                _define_initial_names(RenameInit(g, _insert_phi_functions(g, d)), g),
                g, d, g.root)

\* the CFG after transform: the renamed instructions, type SSA
SsaCfg(g, S) ==
    [blocks |-> [b \in BlockIds(g) |-> [g.blocks[b] EXCEPT !.insts = S.blocks[b]]],
     root |-> g.root,
     type |-> "ssa"]

(***************************************************************************)
(* The SSA runs: make_cfg followed by SsaBuilder().transform, as in        *)
(* Dcpu16Translator.translate_procedure.                                   *)
(***************************************************************************)
\* two variables, copies between them, returns, and branches to every index
\* of the list
SsaAlphabet(n) ==
    [i \in 0..(n - 1) |->
        {Asg(1), Cp(1, 1), Cp(2, 1), Retn} \cup Branches(i, 0, n - 1)]
SsaPrograms(m) == UNION {ListsOver(SsaAlphabet(n), n) : n \in 1..m}

InitSsa ==
    /\ insts \in SsaPrograms(MaxSsaLen)
    /\ opc = NoOpc
    /\ numColors = 0
    /\ phase = "input"
    /\ cfg = NoCfg
    /\ dom = NoDom
    /\ ssa = NoSsa
    /\ alloc = NoAlloc
    /\ rounds = 0
    /\ tr = NoTr /\ peep = NoPeep /\ lnk = NoLnk

\* ssab.transform(self._cfg): the CFG is rewritten in place, so an exception
\* leaves it as far as the renaming got, with its type unchanged
Transform ==
    /\ phase = "cfg"
    /\ ssa' = transform(cfg)
    /\ cfg' = [SsaCfg(cfg, ssa') EXCEPT !.type = IF ssa'.st = "ok" THEN "ssa" ELSE cfg.type]
    /\ phase' = IF ssa'.st = "ok" THEN "ssa" ELSE "ssa_error"
    /\ dom' = DomAnalyze(cfg)
    /\ UNCHANGED <<insts, numColors, alloc, rounds, backend, opc>>

NextSsa == BuildGraph \/ Transform

SpecSsa == InitSsa /\ [][NextSsa]_vars

(***************************************************************************)
(* Properties of SsaBuilder.transform, checked on SpecSsa.                 *)
(***************************************************************************)
\* the positions <<block, index>> of the instructions that assign a variable
DefSites(g) ==
    {p \in UNION {{<<b, i>> : i \in 1..Len(g.blocks[b].insts)} : b \in BlockIds(g)} :
        Defines(g.blocks[p[1]].insts[p[2]])}

DestAt(g, p) == get_id(g.blocks[p[1]].insts[p[2]].oprs[1])

SameName(u, v) == var_base(u) = var_base(v) /\ var_subscript(u) = var_subscript(v)

\* the names _define_initial_names gives to the variables that are read
\* before any assignment: the values a procedure starts with (parameters)
InitialNames == {Renamed(u, 1) : u \in UndefGlobals(build_graph(insts))}

PhiCount(body) ==
    Cardinality({i \in 1..Len(body) : \A j \in 1..i : body[j].op = "ASSIGN_PHI"})

\* C5: after transform no two instructions of the CFG, phis included, have
\* the same variable id (base, subscript) as destination.
UniqueDefinitions ==
    phase = "ssa" =>
        \A p \in DefSites(cfg), q \in DefSites(cfg) :
            p # q => ~SameName(DestAt(cfg, p), DestAt(cfg, q))

\* v, read at the end of block b (at = 0) or by instruction at of block b, is
\* defined by exactly one instruction, which comes earlier in b or lies in
\* a block that dominates b
DefDominates(v, b, at) ==
    /\ Cardinality({p \in DefSites(cfg) : SameName(DestAt(cfg, p), v)}) = 1
    /\ \A p \in DefSites(cfg) :
          SameName(DestAt(cfg, p), v) =>
              IF p[1] = b THEN at = 0 \/ p[2] < at
              ELSE p[1] \in get_block(dom, b)

\* C6: after transform every read of a variable id other than an initial
\* (parameter) name, in a block reachable from the root, is dominated by the
\* one instruction defining that id; argument i of a phi is a read at the
\* end of the i-th predecessor.
ReadsDominated ==
    phase = "ssa" =>
        \A b \in Reachable(cfg) : \A i \in 1..Len(cfg.blocks[b].insts) :
            LET inst == cfg.blocks[b].insts[i]
            IN IF inst.op = "ASSIGN_PHI"
               THEN \A k \in 1..Len(inst.extra) :
                       (IsVar(inst.extra[k])
                        /\ k <= Len(cfg.blocks[b].prev)
                        /\ cfg.blocks[b].prev[k] \in Reachable(cfg)
                        /\ get_id(inst.extra[k]) \notin InitialNames)
                       => DefDominates(get_id(inst.extra[k]), cfg.blocks[b].prev[k], 0)
               ELSE \A v \in ReadVars(inst) \ InitialNames : DefDominates(v, b, i)

\* C7: after transform every phi at the top of a block B reachable from the
\* root has len(prev(B)) extra operands, and the i-th one carries the
\* subscript on top of the variable's stack at the end of the i-th entry of
\* prev(B), also when a block occurs more than once in prev(B).
PhiDiscipline ==
    phase = "ssa" =>
        \A b \in Reachable(cfg) : \A i \in 1..PhiCount(cfg.blocks[b].insts) :
            LET inst == cfg.blocks[b].insts[i]
                key == StackKey(get_id(inst.oprs[1]))
            IN /\ Len(inst.extra) = Len(cfg.blocks[b].prev)
               /\ \A k \in 1..Len(cfg.blocks[b].prev) :
                     cfg.blocks[b].prev[k] \in Reachable(cfg) =>
                        /\ ssa.exit[cfg.blocks[b].prev[k]][key] # <<>>
                        /\ get_id(inst.extra[k]) =
                              make_var_id(var_base(key),
                                          Top(ssa.exit[cfg.blocks[b].prev[k]][key]), 0)

(***************************************************************************)
(* allocation/basic.py: BasicRegisterAllocator.  body is the sequence of   *)
(* the blocks' instruction lists, in block order.  Live ranges are         *)
(* numbered from 0 as in the source.                                       *)
(***************************************************************************)
Flat(body) == Concat(body)

\* the live range a phi builds: its destination, and for every argument the
\* set lr_map holds for it, or the argument itself
PhiLr(D, inst) ==
    {get_id(inst.oprs[1])}
    \cup UNION {IF get_id(e) \in DOMAIN D.lr THEN D.lr[get_id(e)] ELSE {get_id(e)} :
                  e \in Range(inst.extra)}

RECURSIVE AddKeys(_, _)
\* dict insertion order: a key keeps the position of its first insertion
AddKeys(keys, new) ==
    IF new = <<>> THEN keys
    ELSE IF Head(new) \in Range(keys) THEN AddKeys(keys, Tail(new))
    ELSE AddKeys(Append(keys, Head(new)), Tail(new))

\* lr_map after one phi: the arguments, then the destination, are set to lr
PhiStep(D, inst) ==
    LET lr == PhiLr(D, inst)
        touched == [i \in 1..Len(inst.extra) |-> get_id(inst.extra[i])]
                   \o <<get_id(inst.oprs[1])>>
        keys2 == AddKeys(D.keys, touched)
    IN [keys |-> keys2,
        lr |-> [k \in Range(keys2) |-> IF k \in Range(touched) THEN lr ELSE D.lr[k]]]

RECURSIVE PhiPass(_, _, _)
PhiPass(D, flat, i) ==
    IF i > Len(flat) THEN D
    ELSE IF flat[i].op = "ASSIGN_PHI" THEN PhiPass(PhiStep(D, flat[i]), flat, i + 1)
    ELSE PhiPass(D, flat, i + 1)

\* the loop over lr_map: one live range per key, every variable of it mapped
\* to the range of the last key whose set holds it
PhiRanges(D) ==
    [ranges |-> [i \in 1..Len(D.keys) |-> D.lr[D.keys[i]]],
     map |-> [v \in Range(D.keys) |->
                Max({i \in 1..Len(D.keys) : v \in D.lr[D.keys[i]]}) - 1]]

RECURSIVE AddSingles(_, _, _)
\* a live range of its own for every assigned or loaded variable not handled
AddSingles(R, flat, i) ==
    IF Evaluated(R) /\ i > Len(flat) THEN R
    ELSE IF (is_opcode_assign(flat[i].op) \/ flat[i].op = "LOAD")
            /\ get_id(flat[i].oprs[1]) \notin DOMAIN R.map
         THEN AddSingles([ranges |-> Append(R.ranges, {get_id(flat[i].oprs[1])}),
                          map |-> (get_id(flat[i].oprs[1]) :> Len(R.ranges)) @@ R.map],
                         flat, i + 1)
         ELSE AddSingles(R, flat, i + 1)

RECURSIVE Nub(_, _)
\* the distinct live ranges in the order of their first occurrence (equal
\* sets are taken to give equal tuples)
Nub(ranges, acc) ==
    IF ranges = <<>> THEN acc
    ELSE IF Head(ranges) \in Range(acc) THEN Nub(Tail(ranges), acc)
    ELSE Nub(Tail(ranges), Append(acc, Head(ranges)))

IndexOf(seq, x) == Min({i \in 1..Len(seq) : seq[i] = x})

_nub_live_ranges(R) ==
    LET ord == Nub(R.ranges, <<>>)
    IN [ranges |-> ord,
        map |-> [v \in DOMAIN R.map |-> IndexOf(ord, R.ranges[R.map[v] + 1]) - 1]]

\* _live_ranges and _live_range_map for the instructions of body
_discover_live_ranges(body) ==
    _nub_live_ranges(
        AddSingles(PhiRanges(PhiPass([keys |-> <<>>, lr |-> <<>>], Flat(body), 1)),
                   Flat(body), 1))

(***************************************************************************)
(* data_flow.py: LiveAnalyzer.                                             *)
(***************************************************************************)
RECURSIVE UeKill(_, _, _)
\* _compute_ue_var_and_var_kill for one block: U = [ue, kill, mem]
UeKill(U, insts_, i) ==
    IF Evaluated(U) /\ i > Len(insts_) THEN U
    ELSE LET inst == insts_[i]
             var == get_id(inst.oprs[1])
         IN CASE inst.op = "STORE" ->
                    UeKill([U EXCEPT !.kill = @ \ {var}, !.mem = @ \ {var}], insts_, i + 1)
              [] inst.op = "UNLOAD" ->
                    UeKill([U EXCEPT !.mem = @ \ {var}], insts_, i + 1)
              [] inst.op = "LOAD" ->
                    UeKill([U EXCEPT !.mem = @ \cup {var}], insts_, i + 1)
              [] OTHER ->
                    UeKill([U EXCEPT
                              !.ue = @ \cup (ReadVars(inst) \ (U.mem \cup U.kill)),
                              !.kill = IF Defines(inst) THEN @ \cup {var} ELSE @],
                           insts_, i + 1)

BlockUeKill(insts_) == UeKill([ue |-> {}, kill |-> {}, mem |-> {}], insts_, 1)

\* LiveAnalyzer._compute_fragment: the live-out set of block b from the
\* current fragments
LiveComputeFragment(g, uk, frags, b) ==
    UNION {uk[n].ue \cup (frags[n] \ uk[n].kill) : n \in Range(g.blocks[b].next)}

RECURSIVE LiveSweep(_, _, _, _)
LiveSweep(g, uk, frags, i) ==
    IF Evaluated(frags) /\ i > Len(g.blocks) THEN frags
    ELSE LiveSweep(g, uk, [frags EXCEPT ![i] = LiveComputeFragment(g, uk, frags, i)], i + 1)

RECURSIVE LiveSolve(_, _, _)
\* IterativeAnalyzer._solve: sweeps until nothing changes (the sets only
\* grow, within the variables of the CFG)
LiveSolve(g, uk, frags) ==
    LET nxt == LiveSweep(g, uk, frags, 1)
    IN IF nxt = frags THEN frags ELSE LiveSolve(g, uk, nxt)

\* LiveAnalyzer.analyze: the live-out set of every block
LiveAnalyze(g, body) ==
    LiveSolve(g, [b \in BlockIds(g) |-> BlockUeKill(body[b])], [b \in BlockIds(g) |-> {}])

(***************************************************************************)
(* allocation/undirected_graph.py and _build_inference_graph.  A graph is  *)
(* [nodes, adj]: the node values in list order and each node's neighbours. *)
(***************************************************************************)
EmptyGraph == [nodes |-> <<>>, adj |-> <<>>]

add_node(G, val) == [nodes |-> Append(G.nodes, val), adj |-> (val :> {}) @@ G.adj]

add_edge(G, a, b) ==
    [G EXCEPT !.adj = Computed([n \in DOMAIN G.adj |->
                                   IF n = a THEN G.adj[n] \cup {b}
                                   ELSE IF n = b THEN G.adj[n] \cup {a}
                                   ELSE G.adj[n]])]

remove_node(G, xid) ==
    [nodes |-> SelectSeq(G.nodes, LAMBDA n : n # xid),
     adj |-> Computed([n \in DOMAIN G.adj \ {xid} |-> G.adj[n] \ {xid}])]

has_less_k(G, k) == \E i \in 1..Len(G.nodes) : Cardinality(G.adj[G.nodes[i]]) < k

find_less_k(G, k) ==
    G.nodes[Min({i \in 1..Len(G.nodes) : Cardinality(G.adj[G.nodes[i]]) < k})]

RECURSIVE AddNodes(_, _, _)
AddNodes(G, n, i) == IF Evaluated(G) /\ i >= n THEN G ELSE AddNodes(add_node(G, i), n, i + 1)

\* add_edge(lr_dest, lr) for every lr in live_now other than lr_dest; both
\* ends must be nodes
EdgesFrom(B, dest) ==
    IF \E l \in B.live \ {dest} : l \notin DOMAIN B.G.adj \/ dest \notin DOMAIN B.G.adj
    THEN [B EXCEPT !.st = "assert"]
    ELSE [B EXCEPT !.G.adj = Computed([n \in DOMAIN B.G.adj |->
                                 IF n = dest THEN B.G.adj[n] \cup (B.live \ {dest})
                                 ELSE IF n \in B.live THEN B.G.adj[n] \cup {dest}
                                 ELSE B.G.adj[n]]),
                   !.live = @ \ {dest}]

\* the variables an instruction reads through self._live_range_map[...]
\* without a check: the extra operands
ExtraVars(inst) ==
    IF has_extra_operands(inst.op)
    THEN {get_id(o) : o \in {x \in Range(inst.extra) : IsVar(x)}}
    ELSE {}

SlotVars(inst) ==
    {get_id(inst.oprs[i]) : i \in {j \in ReadSlots(inst.op) : IsVar(inst.oprs[j])}}

\* one instruction of the backward walk of _build_inference_graph;
\* B = [G, live, st], map = _live_range_map
GraphStep(B, map, inst) ==
    CASE inst.op \in {"STORE", "UNLOAD"} ->
            IF IsVar(inst.oprs[1]) /\ get_id(inst.oprs[1]) \notin DOMAIN map
            THEN [B EXCEPT !.st = "KeyError"]
            ELSE B
      [] inst.op = "LOAD" ->
            IF get_id(inst.oprs[1]) \notin DOMAIN map THEN [B EXCEPT !.st = "KeyError"]
            ELSE EdgesFrom(B, map[get_id(inst.oprs[1])])
      [] OTHER ->
            LET B1 == IF is_opcode_assign(inst.op)
                      THEN IF get_id(inst.oprs[1]) \notin DOMAIN map
                           THEN [B EXCEPT !.st = "KeyError"]
                           ELSE EdgesFrom(B, map[get_id(inst.oprs[1])])
                      ELSE B
            IN IF B1.st # "ok" THEN B1
               ELSE IF ExtraVars(inst) \ DOMAIN map # {} THEN [B1 EXCEPT !.st = "KeyError"]
               ELSE [B1 EXCEPT !.live =
                        @ \cup {IF v \in DOMAIN map THEN map[v] ELSE 0 : v \in SlotVars(inst)}
                          \cup {map[v] : v \in ExtraVars(inst)}]

RECURSIVE GraphBlock(_, _, _, _)
\* the instructions i, i-1, .. 1 of one block
GraphBlock(B, map, insts_, i) ==
    IF B.st # "ok" \/ i < 1 THEN B
    ELSE GraphBlock(GraphStep(B, map, insts_[i]), map, insts_, i - 1)

RECURSIVE GraphBlocks(_, _, _, _, _)
\* the loop over the blocks b.. ; live_now starts from the live-out set
GraphBlocks(B, map, body, live, b) ==
    IF B.st # "ok" \/ b > Len(body) THEN B
    ELSE IF live[b] \ DOMAIN map # {} THEN [B EXCEPT !.st = "KeyError"]
    ELSE GraphBlocks(
            GraphBlock([B EXCEPT !.live = {map[v] : v \in live[b]}],
                       map, body[b], Len(body[b])),
            map, body, live, b + 1)

\* _build_inference_graph: [G, live, st]
_build_inference_graph(g, body, R) ==
    GraphBlocks([G |-> AddNodes(EmptyGraph, Len(R.ranges), 0), live |-> {}, st |-> "ok"],
                R.map, body, LiveAnalyze(g, body), 1)

(***************************************************************************)
(* _color_graph: simplify, select, and the choice of a live range to spill.*)
(***************************************************************************)
RECURSIVE Simplify(_, _, _)
\* the first loop: nodes are removed until the graph is empty; stk holds the
\* clones [value, nodes] in push order
Simplify(G, k, stk) ==
    IF Evaluated(stk) /\ G.nodes = <<>> THEN stk
    ELSE LET xid == IF has_less_k(G, k) THEN find_less_k(G, k) ELSE G.nodes[1]
         IN Simplify(remove_node(G, xid), k,
                     Append(stk, [value |-> xid, nodes |-> G.adj[xid]]))

\* a colour choice that does not look at the neighbours
AvailAny(color_map, nodes_, k) == 0..(k - 1)

\* the colours left for a node: all K colours but those its recorded
\* neighbours hold
Avail(color_map, nodes_, k) ==
    (0..(k - 1)) \ {color_map[n] : n \in nodes_ \cap DOMAIN color_map}

RECURSIVE Select(_, _, _)
\* the second loop: C = [G, color_map, st]; the popped node is put back with
\* its edges and gets the first available colour, if any
Select(C, k, stk) ==
    IF C.st # "ok" \/ stk = <<>> THEN C
    ELSE LET node == stk[Len(stk)]
             G1 == add_node(C.G, node.value)
             avail == Avail(C.color_map, node.nodes, k)
         IN IF node.nodes \ DOMAIN G1.adj # {} THEN [C EXCEPT !.st = "assert"]
            ELSE Select(
                    [G |-> [G1 EXCEPT !.adj =
                               [n \in DOMAIN G1.adj |->
                                   IF n = node.value THEN node.nodes
                                   ELSE IF n \in node.nodes THEN G1.adj[n] \cup {node.value}
                                   ELSE G1.adj[n]]],
                     color_map |-> IF avail # {}
                                   THEN (node.value :> Min(avail)) @@ C.color_map
                                   ELSE C.color_map,
                     st |-> "ok"],
                    k, SubSeq(stk, 1, Len(stk) - 1))

\* _pick_node_to_spill: the positions in get_nodes() of the uncoloured nodes
\* whose live range has not been spilled yet
SpillCandidates(G, color_map, ranges, spilled) ==
    {i \in 1..Len(G.nodes) :
        G.nodes[i] \notin DOMAIN color_map /\ ranges[G.nodes[i] + 1] \notin spilled}

(***************************************************************************)
(* _insert_spill_code.                                                     *)
(***************************************************************************)
\* var_base(next(iter(lr))): the variables of a live range share their base
LrBase(lr) == var_base(CHOOSE v \in lr : TRUE)

\* the extra operands of LOAD and STORE: the variables of the live range
\* (the source pushes them in the set's iteration order)
LrOprs(lr) == [i \in 1..Cardinality(lr) |-> IrVar(SortIds(lr)[i])]

Load(tmp, lr) == Inst("LOAD", IrVar(tmp), NoOpr, NoOpr, LrOprs(lr))
Store(tmp, lr) == Inst("STORE", IrVar(tmp), NoOpr, NoOpr, LrOprs(lr))
Unload(tmp) == Inst("UNLOAD", IrVar(tmp), NoOpr, NoOpr, <<>>)

_contains_live_range_use(inst, lr) == ReadVars(inst) \cap lr # {}

PhiTouches(inst, lr) ==
    \/ IsVar(inst.oprs[1]) /\ get_id(inst.oprs[1]) \in lr
    \/ \E e \in Range(inst.extra) : IsVar(e) /\ get_id(e) \in lr

NeedStore(inst, lr) ==
    is_opcode_assign(inst.op) /\ IsVar(inst.oprs[1]) /\ get_id(inst.oprs[1]) \in lr

SwapOpr(opr, lr, tmp) == IF IsVar(opr) /\ get_id(opr) \in lr THEN IrVar(tmp) ELSE opr

\* the instruction with the destination and the uses of lr replaced by tmp
SpillRewrite(inst, lr, tmp) ==
    [inst EXCEPT
        !.oprs = [i \in 1..3 |->
                    IF (i = 1 /\ NeedStore(inst, lr))
                       \/ (i \in ReadSlots(inst.op) /\ _contains_live_range_use(inst, lr))
                    THEN SwapOpr(inst.oprs[i], lr, tmp) ELSE inst.oprs[i]],
        !.extra = IF has_extra_operands(inst.op) /\ _contains_live_range_use(inst, lr)
                  THEN [i \in 1..Len(inst.extra) |-> SwapOpr(inst.extra[i], lr, tmp)]
                  ELSE inst.extra]

\* one instruction of a block: X = [out, tmp_idx], out the new instruction list
\* so far
SpillInst(X, inst, lr) ==
    LET tmp == make_var_id(LrBase(lr), 0, X.tmp_idx + 1)
        ld == _contains_live_range_use(inst, lr)
        st == NeedStore(inst, lr)
    IN IF inst.op = "ASSIGN_PHI"
       THEN [X EXCEPT !.out = IF PhiTouches(inst, lr) THEN @ ELSE Append(@, inst)]
       ELSE [out |-> X.out
                     \o (IF ld THEN <<Load(tmp, lr)>> ELSE <<>>)
                     \o <<SpillRewrite(inst, lr, tmp)>>
                     \o (IF st THEN <<Store(tmp, lr)>>
                         ELSE IF ld THEN <<Unload(tmp)>> ELSE <<>>),
             tmp_idx |-> IF ld \/ st THEN X.tmp_idx + 1 ELSE X.tmp_idx]

RECURSIVE SpillBlock(_, _, _, _)
\* one block, from its instruction i on
SpillBlock(X, insts_, lr, i) ==
    IF Evaluated(X) /\ i > Len(insts_) THEN X
    ELSE SpillBlock(SpillInst(X, insts_[i], lr), insts_, lr, i + 1)

RECURSIVE SpillBlocks(_, _, _, _, _)
\* the blocks b.. ; the result is [body, tmp_idx]
SpillBlocks(body, lr, tmp_idx, b, acc) ==
    IF Evaluated(acc) /\ b > Len(body) THEN [body |-> acc, tmp_idx |-> tmp_idx]
    ELSE LET X == SpillBlock([out |-> <<>>, tmp_idx |-> tmp_idx], body[b], lr, 1)
         IN SpillBlocks(body, lr, X.tmp_idx, b + 1, Append(acc, X.out))

_insert_spill_code(body, lr, tmp_idx) == SpillBlocks(body, lr, tmp_idx, 1, <<>>)

(***************************************************************************)
(* printer.py: print_instruction asserts on an opcode it does not know and *)
(* print_operand on an operand that is None.                               *)
(***************************************************************************)
PrintedSlots(inst) ==
    CASE inst.op \in {"UNDEF", "RETN"} -> {}
      [] inst.op \in {"ASSIGN_ADD", "ASSIGN_SUB", "ASSIGN_MUL", "ASSIGN_DIV",
                      "ASSIGN_MOD", "JE", "JNE", "JL", "JLE", "JG", "JGE"} -> {1, 2, 3}
      [] inst.op \in {"ASSIGN", "ASSIGN_READ", "WRITE", "ASSIGN_CALL"} -> {1, 2}
      [] inst.op \in {"JMP", "RET", "UNLOAD", "ASSIGN_PHI", "CALL", "LOAD", "STORE"} -> {1}
      [] inst.op = "ASSIGN_ADDROF" -> IF inst.oprs[2] = NoOpr THEN {1} ELSE {1, 2}
      [] OTHER -> {0}

Printable(inst) ==
    /\ 0 \notin PrintedSlots(inst)
    /\ \A i \in PrintedSlots(inst) : inst.oprs[i] # NoOpr

(***************************************************************************)
(* BasicRegisterAllocator.allocate.  The allocator's state is              *)
(*   [st, body, ranges, map, G, cg, spilled, tmp_idx, color_map, res]      *)
(* with body the blocks' instruction lists, G the interference graph, cg   *)
(* the graph as the last _color_graph left it, and res the                 *)
(* RegisterAllocation (filled when _color_graph returns True).  The        *)
(* variable rounds counts the calls of _color_graph made so far.           *)
(***************************************************************************)
BodyOf(g) == [b \in BlockIds(g) |-> g.blocks[b].insts]

\* _discover_live_ranges(); _build_inference_graph()
Rebuild(g, A) ==
    LET R == _discover_live_ranges(A.body)
        B == _build_inference_graph(g, A.body, R)
    IN [A EXCEPT !.ranges = R.ranges, !.map = R.map, !.G = B.G,
                 !.st = IF B.st = "ok" THEN "run" ELSE B.st]

\* allocate up to the first test of the loop
AllocateEntry(g) ==
    Rebuild(g, [st |-> "run", body |-> BodyOf(g), ranges |-> <<>>, map |-> <<>>,
                G |-> EmptyGraph, cg |-> EmptyGraph, spilled |-> {}, tmp_idx |-> 0,
                color_map |-> <<>>, res |-> <<>>])

_color_graph(G, k) ==
    Select([G |-> EmptyGraph, color_map |-> <<>>, st |-> "ok"], k, Simplify(G, k, <<>>))

\* the body of the loop after a _color_graph that spilled the live range lr:
\* the blocks are printed, the live ranges and the graph are built again
SpillRound(g, A, lr) ==
    LET S == _insert_spill_code(A.body, lr, A.tmp_idx)
        A1 == [A EXCEPT !.body = S.body, !.tmp_idx = S.tmp_idx,
                        !.spilled = @ \cup {lr}]
    IN IF \E b \in 1..Len(S.body) : \E i \in 1..Len(S.body[b]) : ~Printable(S.body[b][i])
       THEN [A1 EXCEPT !.st = "assert"]
       ELSE Rebuild(g, A1)

\* one test of the loop condition and, if it fails, one run of the loop body
AllocateRound(g, A, k) ==
    LET C == _color_graph(A.G, k)
        A1 == [A EXCEPT !.G = C.G, !.cg = C.G, !.color_map = C.color_map]
        cands == SpillCandidates(C.G, C.color_map, A.ranges, A.spilled)
    IN IF C.st # "ok" THEN [A1 EXCEPT !.st = C.st]
       ELSE IF Cardinality(DOMAIN C.color_map) = Len(C.G.nodes)
       THEN [A1 EXCEPT !.st = "done",
                       !.res = [v \in DOMAIN A.map |-> C.color_map[A.map[v]]]]
       ELSE IF cands = {} THEN [A1 EXCEPT !.st = "assert"]
       ELSE SpillRound(g, A1, A.ranges[C.G.nodes[Min(cands)] + 1])

(***************************************************************************)
(* The allocation runs: make_cfg, transform and allocate with a budget of  *)
(* numColors colours.                                                      *)
(***************************************************************************)
\* a conditional branch comparing two variables
Jev(off, a, b) == Inst("JE", IrOffset(off), V(a), V(b), <<>>)

\* three variables, a sum reading two of them, conditional branches forward
\* and jumps backward
AllocAlphabet(n) ==
    [i \in 0..(n - 1) |->
        {Asg(1), Asg(2), Cp(1, 1), Add(3, 1, 2)}
        \cup {Jev(t - (i + 1), 1, 1) : t \in (i + 1)..(n - 1)}
        \cup {Jmp(t - (i + 1)) : t \in 0..i}]
AllocPrograms(m) == UNION {ListsOver(AllocAlphabet(n), n) : n \in 1..m}

InitAlloc ==
    /\ insts \in AllocPrograms(MaxAllocLen)
    /\ opc = NoOpc
    /\ numColors \in 1..MaxK
    /\ phase = "input"
    /\ cfg = NoCfg
    /\ dom = NoDom
    /\ ssa = NoSsa
    /\ alloc = NoAlloc
    /\ rounds = 0
    /\ tr = NoTr /\ peep = NoPeep /\ lnk = NoLnk

WithBody(g, body) ==
    [g EXCEPT !.blocks = [b \in BlockIds(g) |-> [g.blocks[b] EXCEPT !.insts = body[b]]]]

PhaseOf(A) ==
    CASE A.st = "run" -> "alloc"
      [] A.st = "done" -> "done"
      [] OTHER -> "alloc_error"

\* allocate(cfg, numColors) up to the loop
AllocStart ==
    /\ phase = "ssa"
    /\ alloc' = AllocateEntry(cfg)
    /\ phase' = PhaseOf(alloc')
    /\ UNCHANGED <<insts, numColors, cfg, dom, ssa, rounds, backend, opc>>

\* one iteration of the loop of allocate
ColorRound ==
    /\ phase = "alloc"
    /\ rounds < MaxRounds
    /\ rounds' = rounds + 1
    /\ alloc' = AllocateRound(cfg, alloc, numColors)
    /\ cfg' = WithBody(cfg, alloc'.body)
    /\ phase' = PhaseOf(alloc')
    /\ UNCHANGED <<insts, numColors, dom, ssa, backend, opc>>

NextAlloc == BuildGraph \/ Transform \/ AllocStart \/ ColorRound

SpecAlloc == InitAlloc /\ [][NextAlloc]_vars

\* The run is a sequential program: while a stage or a loop iteration is
\* left to run, it runs.  Position is where the run stands; NextAlloc is
\* enabled exactly when Running holds, and each of its steps moves Position.
Phases ==
    {"input", "cfg", "cfg_error", "dom", "ssa", "ssa_error", "alloc", "alloc_error", "done"}
Position == <<phase, rounds>>
Running == phase \in {"input", "cfg", "ssa"} \/ (phase = "alloc" /\ rounds < MaxRounds)
Step == Running /\ phase' \in Phases /\ rounds' \in {rounds, rounds + 1}

SpecAllocFair == SpecAlloc /\ WF_Position(Step)

(***************************************************************************)
(* Properties of the allocation.                                           *)
(***************************************************************************)
\* the variable ids that occur as operands of the instructions of g
OperandVars(g) ==
    UNION {{get_id(o) : o \in {x \in Range(inst.oprs) \cup Range(inst.extra) : IsVar(x)}} :
             inst \in Range(Flat(BodyOf(g)))}

\* the phis left in g
PhisIn(g) ==
    {inst \in Range(Flat(BodyOf(g))) : inst.op = "ASSIGN_PHI"}

\* C1: after allocate returns, two variables whose live ranges are joined by
\* an edge of the final interference graph have different colours; and in
\* every call of _color_graph, returning or spilling, no node got the colour
\* of a neighbour it had when it was removed (the select phase puts all those
\* edges back).
AllocationSound ==
    /\ (phase \in {"alloc", "done", "alloc_error"} /\ rounds > 0) =>
          \A n \in DOMAIN alloc.color_map :
             \A m \in alloc.cg.adj[n] \cap DOMAIN alloc.color_map :
                alloc.color_map[n] # alloc.color_map[m]
    /\ phase = "done" =>
          \A u \in DOMAIN alloc.map : \A v \in DOMAIN alloc.map :
             alloc.map[v] \in alloc.G.adj[alloc.map[u]] => alloc.res[u] # alloc.res[v]

\* allocate has returned after at least one spill, and two coloured
\* variables interfere
SoundWitness ==
    /\ phase = "done"
    /\ rounds > 1
    /\ \E u \in DOMAIN alloc.map : \E v \in DOMAIN alloc.map :
          alloc.map[v] \in alloc.G.adj[alloc.map[u]]

\* C2: after allocate returns, the destination and every argument of every
\* phi left in the CFG are mapped to the same live range and have the same
\* colour.
PhiCoalesced ==
    phase = "done" =>
        \A inst \in PhisIn(cfg) : \A e \in Range(inst.extra) :
            /\ get_id(inst.oprs[1]) \in DOMAIN alloc.map
            /\ get_id(e) \in DOMAIN alloc.map
            /\ alloc.map[get_id(e)] = alloc.map[get_id(inst.oprs[1])]
            /\ alloc.res[get_id(e)] = alloc.res[get_id(inst.oprs[1])]

AllocationTotal ==
    phase = "done" =>
        \A v \in OperandVars(cfg) :
            v \in DOMAIN alloc.res /\ alloc.res[v] \in 0..(numColors - 1)

(***************************************************************************)
(* Properties of the block structure build_graph gives.                    *)
(***************************************************************************)
\* the indices of the branches of L and their target indices i + 1 + offset
BranchIdx(L) == {i \in 0..(Len(L) - 1) : _is_branch_instruction(L[i + 1])}
TargetOf(L, i) == i + 1 + get_offset(L[i + 1])
TargetsInRange(L) == \A i \in BranchIdx(L) : TargetOf(L, i) \in 0..(Len(L) - 1)

\* index j of L is a leader: index 0, the index after a branch or return,
\* or a branch target
IsLeader(L, j) ==
    \/ j = 0
    \/ j >= 1 /\ (_is_branch_instruction(L[j]) \/ _is_end_instruction(L[j]))
    \/ \E i \in BranchIdx(L) : TargetOf(L, i) = j

\* the index in the list of the first instruction of block k
BlockStart(g, k) == Len(Flat(SubSeq(BodyOf(g), 1, k - 1)))

\* b is the instruction a of the list, its branch operand possibly rewritten
\* into a block reference
SameInstruction(a, b) ==
    \/ a = b
    \/ /\ _is_branch_instruction(a)
       /\ b = [a EXCEPT !.oprs = [a.oprs EXCEPT ![1] = b.oprs[1]]]
       /\ b.oprs[1].k = "blk"

\* C19: for a non-empty list whose branch targets lie in [0, len(L)), the
\* blocks of build_graph partition the list: their instruction lists, in
\* increasing block id, concatenate to the list; every block is non-empty and
\* starts at a leader; no leader lies at a later position inside a block; ids
\* increase with the start index; a list without branch and return gives one
\* block.
PartitionAtLeaders ==
    (phase \in {"cfg", "dom"} /\ insts # <<>> /\ TargetsInRange(insts)) =>
        LET flat == Flat(BodyOf(cfg))
        IN /\ Len(flat) = Len(insts)
           /\ \A j \in 1..Len(insts) : SameInstruction(insts[j], flat[j])
           /\ \A k \in BlockIds(cfg) :
                 /\ cfg.blocks[k].id = k
                 /\ cfg.blocks[k].insts # <<>>
                 /\ IsLeader(insts, BlockStart(cfg, k))
                 /\ \A j \in (BlockStart(cfg, k) + 1)..(BlockStart(cfg, k + 1) - 1) :
                       ~IsLeader(insts, j)
           /\ (\A j \in 1..Len(insts) :
                  ~_is_branch_instruction(insts[j]) /\ ~_is_end_instruction(insts[j]))
              => Len(cfg.blocks) = 1

\* a list with in-range targets has been split into three blocks or more, one
\* of them starting at a branch target that follows no branch or return
PartitionWitness ==
    /\ phase = "cfg"
    /\ TargetsInRange(insts)
    /\ Len(cfg.blocks) >= 3
    /\ \E k \in BlockIds(cfg) :
          /\ BlockStart(cfg, k) >= 1
          /\ ~_is_branch_instruction(insts[BlockStart(cfg, k)])
          /\ ~_is_end_instruction(insts[BlockStart(cfg, k)])

\* C20: build_graph aborts, and returns no CFG, for every list holding a
\* branch whose target index is below 0 or at or beyond len(L).
OutOfRangeAborts ==
    (phase # "input" /\ ~TargetsInRange(insts)) => phase = "cfg_error"

(***************************************************************************)
(* asm/dcpu16/linker.py: Dcpu16Linker, and the link stage of main.py.  An  *)
(* object is [words, global_relocs, local_relocs, symbols] as              *)
(* Dcpu16Assembler.get_object returns it: positions are 0-based word       *)
(* indices, global_relocs a list of <<name, pos>>, symbols a function from *)
(* names to positions.  The linker is [buffer, global_relocs,              *)
(* local_relocs, symbols, got_errors, errors], errors the reports made.    *)
(***************************************************************************)
MaxObjs == 2       \* most objects handed to the linker
MaxWords == 2      \* most words of an object

NewLinker ==
    [buffer |-> <<>>, global_relocs |-> <<>>, local_relocs |-> <<>>,
     symbols |-> <<>>, got_errors |-> FALSE, errors |-> {}]

\* a position of an object without the offset of the object
RebaseNone(pos, offset) == pos

\* a position of an object moved by the offset of the object in the buffer
Rebase(pos, offset) == pos + offset

report_error(K, kind, name) ==
    [K EXCEPT !.got_errors = TRUE, !.errors = @ \cup {<<kind, name>>}]

RECURSIVE RelocateLocals(_, _, _, _)
\* for reloc in local_relocs: the word at offset + reloc grows by offset
RelocateLocals(K, relocs, offset, i) ==
    IF i > Len(relocs) THEN K
    ELSE RelocateLocals(
            [K EXCEPT !.local_relocs = Append(@, Rebase(relocs[i], offset)),
                      !.buffer[offset + relocs[i] + 1] = @ + offset],
            relocs, offset, i + 1)

\* for name in symbols: a name already known is reported, a new one is kept
\* at its position in the buffer
AddSymbols(K, symbols, offset) ==
    LET dup == DOMAIN symbols \cap DOMAIN K.symbols
        new == DOMAIN symbols \ DOMAIN K.symbols
    IN [K EXCEPT !.symbols = [n \in DOMAIN K.symbols \cup new |->
                                 IF n \in new THEN Rebase(symbols[n], offset)
                                 ELSE K.symbols[n]],
                 !.got_errors = @ \/ dup # {},
                 !.errors = @ \cup {<<"multiple definitions", n>> : n \in dup}]

append_object(K, obj) ==
    LET offset == Len(K.buffer)
        K1 == RelocateLocals([K EXCEPT !.buffer = @ \o obj.words],
                             obj.local_relocs, offset, 1)
        K2 == [K1 EXCEPT !.global_relocs =
                  @ \o [i \in 1..Len(obj.global_relocs) |->
                          <<obj.global_relocs[i][1], Rebase(obj.global_relocs[i][2], offset)>>]]
    IN AddSymbols(K2, obj.symbols, offset)

RECURSIVE LinkRelocs(_, _)
\* for name, pos in self._global_relocs
LinkRelocs(K, i) ==
    IF i > Len(K.global_relocs) THEN K
    ELSE LET name == K.global_relocs[i][1]
             pos == K.global_relocs[i][2]
         IN LinkRelocs(IF name \notin DOMAIN K.symbols
                       THEN report_error(K, "undefined symbol", name)
                       ELSE [K EXCEPT !.buffer[pos + 1] = K.symbols[name]],
                       i + 1)

link(K) == LinkRelocs(K, 1)

\* struct.pack('>H', word) takes the words in [0, 65535]
Packable(word) == word >= 0 /\ word <= 65535

(***************************************************************************)
(* The objects the link runs start from.                                   *)
(***************************************************************************)
Names == {"f", "g"}

\* what the word at a position is: plain data, a use of a local label, or a
\* use of an external name
Roles == {"plain", "local"} \cup Names

PositionsWith(roles, R) == SortIds({<<p - 1, 0, 0>> : p \in {q \in 1..Len(roles) : roles[q] \in R}})

ObjectOf(roles, symbols) ==
    [words |-> [p \in 1..Len(roles) |-> p],
     local_relocs |-> [i \in 1..Len(PositionsWith(roles, {"local"})) |->
                          PositionsWith(roles, {"local"})[i][1]],
     global_relocs |-> [i \in 1..Len(PositionsWith(roles, Names)) |->
                           <<roles[PositionsWith(roles, Names)[i][1] + 1],
                             PositionsWith(roles, Names)[i][1]>>],
     symbols |-> symbols]

Objects(n) ==
    UNION {{ObjectOf(roles, symbols) :
               roles \in [1..len -> Roles],
               symbols \in UNION {[D -> 0..(len - 1)] : D \in SUBSET Names}} :
           len \in 1..n}

ObjectLists(m, n) == UNION {[1..k -> Objects(n)] : k \in 0..m}

(***************************************************************************)
(* main.py, "Link everything" and "Output the final binary".  lnk is       *)
(* [st, objs, done, K, image, exit]: the objects, how many were appended,  *)
(* the linker, the words written to the output file and the exit code.     *)
(***************************************************************************)
InitLink ==
    /\ insts = <<>> /\ numColors = 0 /\ phase = "link"
    /\ opc = NoOpc
    /\ cfg = NoCfg /\ dom = NoDom /\ ssa = NoSsa /\ alloc = NoAlloc /\ rounds = 0
    /\ tr = NoTr /\ peep = NoPeep
    /\ \E objs \in ObjectLists(MaxObjs, MaxWords) :
          lnk = [st |-> "append", objs |-> objs, done |-> 0, K |-> NewLinker,
                 image |-> <<>>, exit |-> "none"]

\* linker.append_object(obj) for the next object
AppendObject ==
    /\ lnk.st = "append"
    /\ lnk.done < Len(lnk.objs)
    /\ lnk' = [lnk EXCEPT !.done = @ + 1, !.K = append_object(@, lnk.objs[lnk.done + 1])]
    /\ UNCHANGED <<insts, numColors, phase, cfg, dom, ssa, alloc, rounds, tr, peep, opc>>

\* linker.link(BinaryType.RAW), then the words are written to the output
\* file and main returns
LinkAndWrite ==
    /\ lnk.st = "append"
    /\ lnk.done = Len(lnk.objs)
    /\ lnk' = LET K == link(lnk.K)
              IN IF \A i \in 1..Len(K.buffer) : Packable(K.buffer[i])
                 THEN [lnk EXCEPT !.K = K, !.st = "written", !.image = K.buffer, !.exit = 0]
                 ELSE [lnk EXCEPT !.K = K, !.st = "raised", !.exit = 1]
    /\ UNCHANGED <<insts, numColors, phase, cfg, dom, ssa, alloc, rounds, tr, peep, opc>>

NextLink == AppendObject \/ LinkAndWrite

SpecLink == InitLink /\ [][NextLink]_vars

(***************************************************************************)
(* Properties of the link.                                                 *)
(***************************************************************************)
\* the sum of the word counts of the objects before the i-th
OffsetOf(objs, i) == Len(Flat([j \in 1..(i - 1) |-> objs[j].words]))

\* the objects whose globals define the name
Definers(objs, name) == {j \in 1..Len(objs) : name \in DOMAIN objs[j].symbols}

Linked == lnk.st \in {"written", "raised"}

\* the names used at position p of the i-th object
NamesAt(objs, i, p) == {r[1] : r \in {q \in Range(objs[i].global_relocs) : q[2] = p}}

\* every name used at the position has one definer
Resolvable(objs, i, p) ==
    \A name \in NamesAt(objs, i, p) : Cardinality(Definers(objs, name)) = 1

\* the value the linked buffer is to hold for the word at position p of the
\* i-th object
LinkedWord(objs, i, p) ==
    LET o == objs[i]
    IN IF p \in Range(o.local_relocs) THEN o.words[p + 1] + OffsetOf(objs, i)
       ELSE IF NamesAt(objs, i, p) = {} THEN o.words[p + 1]
       ELSE LET name == CHOOSE n \in NamesAt(objs, i, p) : TRUE
                j == CHOOSE d \in Definers(objs, name) : TRUE
            IN OffsetOf(objs, j) + objs[j].symbols[name]

\* C17: after append_object for o1..on in order and link, the buffer is the
\* concatenation of the objects' words, except that a word at a local
\* relocation of oi is its original value plus offset_i and a word at a
\* global relocation (name, p) is offset_j + pos for the one object oj that
\* defines name at pos; and no multiple-definition error is reported when
\* every name is defined by one object at most.
LinkRelocates ==
    Linked =>
        /\ Len(lnk.K.buffer) = OffsetOf(lnk.objs, Len(lnk.objs) + 1)
        /\ \A i \in 1..Len(lnk.objs) : \A p \in 0..(Len(lnk.objs[i].words) - 1) :
              Resolvable(lnk.objs, i, p) =>
                 lnk.K.buffer[OffsetOf(lnk.objs, i) + p + 1] = LinkedWord(lnk.objs, i, p)
        /\ (\A n \in Names : Cardinality(Definers(lnk.objs, n)) <= 1)
              => \A n \in Names : <<"multiple definitions", n>> \notin lnk.K.errors

\* two objects, each with a use of a local label that is not word 0 of the
\* buffer and a use of the global the other defines, linked without a report
LinkWitness ==
    /\ lnk.st = "written"
    /\ Len(lnk.objs) = 2
    /\ lnk.objs[2].local_relocs # <<>>
    /\ \E r \in Range(lnk.objs[1].global_relocs) :
          /\ Definers(lnk.objs, r[1]) = {2}
          /\ lnk.objs[2].symbols[r[1]] > 0
          /\ lnk.K.buffer[r[2] + 1] = Len(lnk.objs[1].words) + lnk.objs[2].symbols[r[1]]
    /\ \E r \in Range(lnk.objs[2].global_relocs) : Definers(lnk.objs, r[1]) = {1}
    /\ ~lnk.K.got_errors

\* C18: when the linker has reported an error (a symbol defined by two
\* objects, or a global relocation of a name no object defines), the driver
\* ends with a non-zero exit code and has written no output image.
LinkErrorsFail ==
    (Linked /\ lnk.K.got_errors) => (lnk.exit # 0 /\ lnk.image = <<>>)

(***************************************************************************)
(* asm/dcpu16/peephole.py: Dcpu16PeepholeOptimizer.  An assembly text is   *)
(* the sequence of its lines; a line "\tOP a, b" is [op, a, b] and an      *)
(* operand is a register or name [k |-> "reg", r], a number                *)
(* [k |-> "num", c] printed in decimal, or a memory operand                *)
(* [k |-> "mem", r, s, c] printed "[r]" when s = "" and "[r s c]" when s   *)
(* is "+" or "-".  The three patterns begin with a tab and take whole      *)
(* lines of such a text, so re.sub replaces, from the top, every run of    *)
(* lines that matches and goes on after the run.                           *)
(***************************************************************************)
MaxLines == 5      \* most lines of an assembly text
MaxConst == 2      \* largest constant in an assembly text

Reg(r) == [k |-> "reg", r |-> r, s |-> "", c |-> 0]
Num(c) == [k |-> "num", r |-> "", s |-> "", c |-> c]
Mem(r, s, c) == [k |-> "mem", r |-> r, s |-> s, c |-> IF s = "" THEN 0 ELSE c]
Line(op, a, b) == [op |-> op, a |-> a, b |-> b]

\* (?P<tmp_reg>A|B|C|X|Y|Z|I|J|SP)
TmpRegs == {"A", "B", "C", "X", "Y", "Z", "I", "J", "SP"}

\* \d+ takes a number printed without a sign
IsDigits(o) == o.k = "num" /\ o.c >= 0

\* (?P<target_reg>A|B|C|X|Y|Z|I|J|SP|([_a-zA-Z0-9]+)) and its text
IsTarget(o) == o.k = "reg" \/ IsDigits(o)
TargetText(o) == IF o.k = "reg" THEN o.r ELSE ToString(o.c)

\* \[(?P=tmp_reg)( (?P<existing_operation>[-+]) (?P<existing_constant>\d+))?\]
IsDeref(o, tmp_reg) ==
    /\ o.k = "mem"
    /\ o.r = tmp_reg
    /\ o.s = "" \/ (o.s \in {"+", "-"} /\ o.c >= 0)

\* the first two lines of SET_ADDSUB_DEREF_1 and SET_ADDSUB_DEREF_2
MatchesSetAddSub(L, i) ==
    /\ i + 2 <= Len(L)
    /\ L[i].op = "SET" /\ L[i].a.k = "reg" /\ L[i].a.r \in TmpRegs /\ IsTarget(L[i].b)
    /\ L[i + 1].op \in {"ADD", "SUB"} /\ L[i + 1].a = L[i].a /\ IsDigits(L[i + 1].b)
    /\ L[i + 2].op = "SET"

Matches(rule, L, i) ==
    CASE rule = "SET_ADDSUB_DEREF_1" ->
            MatchesSetAddSub(L, i) /\ IsDeref(L[i + 2].b, L[i].a.r)
      [] rule = "SET_ADDSUB_DEREF_2" ->
            MatchesSetAddSub(L, i) /\ IsDeref(L[i + 2].a, L[i].a.r)
      [] rule = "TWO_SAME_OPS" ->
            /\ i + 1 <= Len(L)
            /\ L[i].op \in {"ADD", "SUB", "MUL"} /\ L[i].a.k = "reg" /\ L[i].a.r \in TmpRegs
            /\ IsDigits(L[i].b)
            /\ L[i + 1].op = L[i].op /\ L[i + 1].a = L[i].a /\ IsDigits(L[i + 1].b)

\* the lines a match of the rule takes
Width(rule) == IF rule = "TWO_SAME_OPS" THEN 2 ELSE 3

\* eval(f'{operation} {constant} {existing_operation} {existing_constant}')
EvalConstant(operation, constant, existing_operation, existing_constant) ==
    (IF operation = "+" THEN constant ELSE 0 - constant)
    + (IF existing_operation = "+" THEN existing_constant ELSE 0 - existing_constant)

\* the memory operand [target_reg operation constant] the rewrite prints
DerefOperand(L, i, existing) ==
    LET operation == IF L[i + 1].op = "ADD" THEN "+" ELSE "-"
        constant == IF existing.s = "" THEN L[i + 1].b.c
                    ELSE EvalConstant(operation, L[i + 1].b.c, existing.s, existing.c)
    IN Mem(TargetText(L[i].b), operation, constant)

_set_addsub_deref(rule, L, i) ==
    IF rule = "SET_ADDSUB_DEREF_1"
    THEN Line("SET", L[i + 2].a, DerefOperand(L, i, L[i + 2].b))
    ELSE Line("SET", DerefOperand(L, i, L[i + 2].a), L[i + 2].b)

_two_same_ops(L, i) ==
    LET const1 == L[i].b.c
        const2 == L[i].b.c
        val == CASE L[i].op = "ADD" -> const1 + const2
                 [] L[i].op = "SUB" -> const1 - const2
                 [] L[i].op = "MUL" -> const1 * const2
    IN Line(L[i].op, L[i].a, Num(val))

RECURSIVE Sub(_, _, _)
\* pattern.sub(repl, asm): leftmost matches that do not overlap
Sub(rule, L, i) ==
    IF i > Len(L) THEN <<>>
    ELSE IF Matches(rule, L, i)
         THEN <<IF rule = "TWO_SAME_OPS" THEN _two_same_ops(L, i)
                ELSE _set_addsub_deref(rule, L, i)>>
              \o Sub(rule, L, i + Width(rule))
         ELSE <<L[i]>> \o Sub(rule, L, i + 1)

_apply(asm) ==
    Sub("TWO_SAME_OPS", Sub("SET_ADDSUB_DEREF_2", Sub("SET_ADDSUB_DEREF_1", asm, 1), 1), 1)

\* optimize returns after one _apply, whatever it changed
SameAlways(asm, new_asm) == TRUE

\* the loop test of optimize: asm != new_asm goes on
Same(asm, new_asm) == asm = new_asm

(***************************************************************************)
(* The texts the optimizer runs start from: every text of up to MaxLines   *)
(* lines over a few lines that chain the rules, and every three-line       *)
(* address computation with constants up to MaxConst.                      *)
(***************************************************************************)
ChainLines ==
    {Line("SET", Reg("B"), Reg("SP")), Line("ADD", Reg("B"), Num(2)),
     Line("SET", Reg("A"), Reg("B")), Line("ADD", Reg("A"), Num(1)),
     Line("SET", Reg("A"), Mem("A", "", 0)), Line("SUB", Reg("B"), Num(1)),
     Line("SET", Mem("B", "+", 1), Reg("A"))}

ChainTexts(m) == UNION {ListsOver([i \in 0..(n - 1) |-> ChainLines], n) : n \in 0..m}

Offsets(c) == {Mem("B", "", 0)} \cup {Mem("B", s, m) : s \in {"+", "-"}, m \in 0..c}

DerefTexts(c) ==
    {<<Line("SET", Reg("B"), Reg(r)), Line(op, Reg("B"), Num(k)), third>> :
        r \in {"SP", "A"}, op \in {"ADD", "SUB"}, k \in 0..c,
        third \in {Line("SET", Reg("A"), o) : o \in Offsets(c)}
                  \cup {Line("SET", o, Reg("A")) : o \in Offsets(c)}}

\* two lines with the same operation and register and constants up to c
FoldTexts(c) ==
    {<<Line(op, Reg(r), Num(k1)), Line(op, Reg(r), Num(k2))>> :
        op \in {"ADD", "SUB", "MUL"}, r \in {"A", "SP"}, k1 \in 0..c, k2 \in 0..c}

(***************************************************************************)
(* optimize, one loop test at a time, and a second call on its result.     *)
(* peep is [input, asm, new_asm, first]: first is what the first call      *)
(* returned.  phase is the position in the first call ("optimize",         *)
(* "optimize_loop", "optimized") or the second ("reoptimize",              *)
(* "reoptimize_loop", "reoptimized"); rounds counts the loop iterations.   *)
(***************************************************************************)
InitPeep ==
    /\ insts = <<>> /\ numColors = 0 /\ phase = "optimize"
    /\ opc = NoOpc
    /\ cfg = NoCfg /\ dom = NoDom /\ ssa = NoSsa /\ alloc = NoAlloc /\ rounds = 0
    /\ tr = NoTr /\ lnk = NoLnk
    /\ \E text \in ChainTexts(MaxLines) \cup DerefTexts(MaxConst) \cup FoldTexts(MaxConst) :
          peep = [input |-> text, asm |-> text, new_asm |-> <<>>, first |-> <<>>]

PeepPhases ==
    {"optimize", "optimize_loop", "optimized", "reoptimize", "reoptimize_loop", "reoptimized"}

\* the position after the first _apply of a call, and after its return
LoopOf(p) == IF p = "optimize" THEN "optimize_loop" ELSE "reoptimize_loop"
ReturnOf(p) == IF p = "optimize_loop" THEN "optimized" ELSE "reoptimized"

\* new_asm = self._apply(asm)
OptimizeEnter ==
    /\ phase \in {"optimize", "reoptimize"}
    /\ phase' = LoopOf(phase)
    /\ peep' = [peep EXCEPT !.new_asm = _apply(peep.asm)]
    /\ UNCHANGED <<insts, numColors, cfg, dom, ssa, alloc, rounds, tr, lnk, opc>>

\* while asm != new_asm: asm = new_asm; new_asm = self._apply(asm)
OptimizeLoop ==
    /\ phase \in {"optimize_loop", "reoptimize_loop"}
    /\ ~Same(peep.asm, peep.new_asm)
    /\ rounds' = rounds + 1
    /\ peep' = [peep EXCEPT !.asm = peep.new_asm, !.new_asm = _apply(peep.new_asm)]
    /\ UNCHANGED <<insts, numColors, phase, cfg, dom, ssa, alloc, tr, lnk, opc>>

\* return new_asm
OptimizeReturn ==
    /\ phase \in {"optimize_loop", "reoptimize_loop"}
    /\ Same(peep.asm, peep.new_asm)
    /\ phase' = ReturnOf(phase)
    /\ UNCHANGED <<insts, numColors, cfg, dom, ssa, alloc, rounds, backend, opc>>

\* optimize is called on what it returned
OptimizeAgain ==
    /\ phase = "optimized"
    /\ phase' = "reoptimize"
    /\ peep' = [peep EXCEPT !.first = peep.new_asm, !.asm = peep.new_asm, !.new_asm = <<>>]
    /\ UNCHANGED <<insts, numColors, cfg, dom, ssa, alloc, rounds, tr, lnk, opc>>

NextPeep == OptimizeEnter \/ OptimizeLoop \/ OptimizeReturn \/ OptimizeAgain

SpecPeep == InitPeep /\ [][NextPeep]_vars

\* optimize is in a call, or is still to be called on its result
Optimizing == phase \in PeepPhases \ {"reoptimized"}

\* a step of the optimizer, as the position shows it
OptimizeStep ==
    /\ Optimizing
    /\ phase' \in PeepPhases
    /\ rounds' \in {rounds, rounds + 1}

\* the optimizer is not stopped while it has a step to take
SpecPeepFair == SpecPeep /\ WF_Position(OptimizeStep)

(***************************************************************************)
(* Properties of the peephole optimizer.                                   *)
(***************************************************************************)
Optimized == phase \in {"optimized", "reoptimized"}

\* C15: optimize terminates on every text, what it returns is a fixed point
\* of the rewrite rules, and optimize of what it returned returns the same
\* text: optimize(optimize(s)) = optimize(s).
OptimizeIdempotent ==
    /\ [](Optimized => _apply(peep.new_asm) = peep.new_asm)
    /\ [](phase = "reoptimized" => peep.new_asm = peep.first)
    /\ <>(phase = "reoptimized")

\* both calls have returned for a text that took more than one pass
IdempotentWitness ==
    /\ phase = "reoptimized"
    /\ _apply(peep.input) # peep.input
    /\ _apply(_apply(peep.input)) # _apply(peep.input)
    /\ peep.first = _apply(_apply(peep.input))

\* the text is one address computation: SET tmp, r; OP tmp, k; and a SET
\* that reads or writes memory at tmp, with or without an offset
IsAddressText(text) ==
    /\ Len(text) = 3
    /\ Matches("SET_ADDSUB_DEREF_1", text, 1) \/ Matches("SET_ADDSUB_DEREF_2", text, 1)

\* the memory operand at tmp of the third line
AddressOperand(text) == IF text[3].b.k = "mem" THEN text[3].b ELSE text[3].a

\* the offset a memory operand [r s c] adds to r
Denoted(o) == IF o.s = "+" THEN o.c ELSE IF o.s = "-" THEN 0 - o.c ELSE 0

\* +k for ADD and -k for SUB, plus +m or -m when the offset is present
ExpectedOffset(text) ==
    (IF text[2].op = "ADD" THEN text[2].b.c ELSE 0 - text[2].b.c)
    + Denoted(AddressOperand(text))

\* C16: when the optimizer rewrites SET tmp, r; OP tmp, k; SET dest, [tmp]
\* or [tmp + m] or [tmp - m] (and the store form) into one SET with the
\* memory operand [r s c], the address r s c is r + e, e being +k for ADD
\* and -k for SUB, plus +m or -m when the offset is present.
RewriteKeepsAddress ==
    (phase = "optimized" /\ IsAddressText(peep.input)) =>
        /\ Len(peep.new_asm) = 1
        /\ peep.new_asm[1].op = "SET"
        /\ LET o == IF peep.input[3].b.k = "mem" THEN peep.new_asm[1].b ELSE peep.new_asm[1].a
           IN /\ o.k = "mem"
              /\ o.r = TargetText(peep.input[1].b)
              /\ Denoted(o) = ExpectedOffset(peep.input)

(***************************************************************************)
(* ir/translate/dcpu16_translator.py: Dcpu16Translator.  The generated     *)
(* assembly is a sequence of lines Line(op, a, b) as above; a label line   *)
(* is Line("label", name, none), a block name "_blk<id>" the operand       *)
(* Blk(id), and the line "\t\tSET PC, x" after a condition has op "SET?".  *)
(* The translation context C is [params, res, need, stored, g]: the        *)
(* procedure's parameters, the colours, _need_prologue, _stored_lrs and    *)
(* the final CFG.  The emitter state E is [st, asm, cs, i, segs]: the      *)
(* lines so far, _caller_saved, the counter i of the block loop and, for   *)
(* every instruction lowered, its opcode and the lines it produced.        *)
(***************************************************************************)
DCPU16_NUM_GP_REGISTERS == 7
MaxSpills == 6     \* most iterations of allocate's loop in one translation
MaxProcs == 2      \* most procedures given to one translator

_register_mapping == <<"A", "B", "C", "X", "Y", "Z", "I">>

NoText == [k |-> "none", r |-> "", s |-> "", c |-> 0]
Blk(id) == [k |-> "blk", r |-> "_blk", s |-> "", c |-> id]

\* the first index of x in a list, from 0 (list.index)
ListIndex(seq, x) == IndexOf(seq, x) - 1

\* the register of a variable joins _caller_saved when it is A, B or C
Touch(cs, reg) ==
    IF reg \in {"A", "B", "C"} /\ reg \notin Range(cs) THEN Append(cs, reg) ELSE cs

\* [J + {index + 1}] / [SP + {index + 1}] for a read of parameter index
ParamOffset(index) == index + 1

\* ADD dest, index + 2 of ASSIGN_ADDROF
AddrofOffset(index) == index + 2

\* _translate_operand(opr, deref): [st, txt, cs]
_translate_operand(C, cs, opr, deref) ==
    CASE opr.k = "none" -> [st |-> "ok", txt |-> NoText, cs |-> cs]
      [] opr.k = "const" -> [st |-> "ok", txt |-> Num(opr.b), cs |-> cs]
      [] opr.k = "blk" -> [st |-> "ok", txt |-> Blk(opr.b), cs |-> cs]
      [] opr.k = "var" ->
            IF var_base(get_id(opr)) \in Range(C.params)
            THEN [st |-> "ok",
                  txt |-> Mem(IF C.need THEN "J" ELSE "SP", "+",
                              ParamOffset(ListIndex(C.params, var_base(get_id(opr))))),
                  cs |-> cs]
            ELSE IF get_id(opr) \notin DOMAIN C.res
            THEN [st |-> "AssertionError", txt |-> NoText, cs |-> cs]
            ELSE LET reg == _register_mapping[C.res[get_id(opr)] + 1]
                 IN [st |-> "ok", txt |-> Reg(reg), cs |-> Touch(cs, reg)]
      [] opr.k = "name" ->
            [st |-> "ok", txt |-> IF deref THEN Mem("f", "", 0) ELSE Reg("f"), cs |-> cs]
      [] OTHER -> [st |-> "AssertionError", txt |-> NoText, cs |-> cs]

\* the operands _check_register_usage looks at, in its order: per
\* instruction the read slots, the extra operands, then the destination
Probes(code) ==
    Concat([n \in 1..Len(code) |->
        LET inst == code[n]
            uses == [j \in 1..Cardinality(ReadSlots(inst.op)) |->
                        [opr |-> inst.oprs[SetToSeq(ReadSlots(inst.op))[j]], def |-> FALSE]]
            extras == IF has_extra_operands(inst.op)
                      THEN [j \in 1..Len(inst.extra) |-> [opr |-> inst.extra[j], def |-> FALSE]]
                      ELSE <<>>
            dest == IF is_opcode_assign(inst.op)
                    THEN <<[opr |-> inst.oprs[1], def |-> TRUE]>> ELSE <<>>
        IN SelectSeq(uses \o extras \o dest, LAMBDA q : IsVar(q.opr))])

RECURSIVE CheckProbes(_, _, _, _, _)
\* one operand of the scan, translated to t: the register looked for ends
\* the scan, any other operand leaves it to the next one
CheckProbe(C, probes, j, register, t) ==
    IF t.st # "ok" THEN [st |-> t.st, ret |-> "raised", cs |-> t.cs]
    ELSE IF t.txt = Reg(register)
    THEN [st |-> "ok",
          ret |-> IF probes[j].def THEN "assigned_before_usage" ELSE "used",
          cs |-> t.cs]
    ELSE CheckProbes(C, t.cs, probes, j + 1, register)

CheckProbes(C, cs, probes, j, register) ==
    IF j > Len(probes) THEN [st |-> "ok", ret |-> "not_mentioned", cs |-> cs]
    ELSE CheckProbe(C, probes, j, register,
                    _translate_operand(C, cs, probes[j].opr, FALSE))

_check_register_usage(C, cs, code, register) ==
    CheckProbes(C, cs, Probes(code), 1, register)

\* the successors of a block that are not explored, in the order of next
Unexplored(g, id, explored) ==
    SelectSeq(g.blocks[id].next, LAMBDA b : b \notin explored)

RECURSIVE Explore(_, _, _, _, _)
\* what _should_save_reg does with the result r of _check_register_usage:
\* return False, return True, or go on with the blocks to explore
Usage(C, r, explored, to_explore, register) ==
    IF r.st # "ok" THEN [st |-> r.st, val |-> FALSE, cs |-> r.cs]
    ELSE IF r.ret = "assigned_before_usage" THEN [st |-> "ok", val |-> FALSE, cs |-> r.cs]
    ELSE IF r.ret = "used" THEN [st |-> "ok", val |-> TRUE, cs |-> r.cs]
    ELSE Explore(C, r.cs, explored, to_explore, register)

\* the loop of _should_save_reg over to_explore; it returns None at its end
Explore(C, cs, explored, to_explore, register) ==
    IF to_explore = <<>> THEN [st |-> "ok", val |-> FALSE, cs |-> cs]
    ELSE LET id == to_explore[Len(to_explore)]
         IN Usage(C, _check_register_usage(C, cs, C.g.blocks[id].insts, register),
                  explored \cup {id},
                  SubSeq(to_explore, 1, Len(to_explore) - 1)
                  \o Unexplored(C.g, id, explored \cup {id}),
                  register)

_should_save_reg(C, cs, i, id, register) ==
    Usage(C,
          _check_register_usage(C, cs,
                                SubSeq(C.g.blocks[id].insts, i + 2, Len(C.g.blocks[id].insts)),
                                register),
          {id}, Unexplored(C.g, id, {id}), register)

Set(a, b) == Line("SET", a, b)
Push(a) == Set(Reg("PUSH"), a)
Pop(r) == Set(Reg(r), Reg("POP"))

RECURSIVE SaveRegs(_, _, _, _, _, _)
\* saved += e for the register reg when _should_save_reg gave val
Saved(reg, val, rest) ==
    [st |-> rest.st, saved |-> (IF val THEN <<reg>> ELSE <<>>) \o rest.saved, cs |-> rest.cs]

\* one register of _caller_saved, with the result r of _should_save_reg
SaveReg(C, cs0, j, i, id, r) ==
    IF r.st # "ok" THEN [st |-> r.st, saved |-> <<>>, cs |-> r.cs]
    ELSE Saved(cs0[j], r.val, SaveRegs(C, r.cs, cs0, j + 1, i, id))

\* for e in self._caller_saved: if self._should_save_reg(i, blk, e)
SaveRegs(C, cs, cs0, j, i, id) ==
    IF j > Len(cs0) THEN [st |-> "ok", saved |-> <<>>, cs |-> cs]
    ELSE SaveReg(C, cs0, j, i, id, _should_save_reg(C, cs, i, id, cs0[j]))

RECURSIVE PushArgs(_, _, _, _)
\* SET PUSH, t before the pushes of the arguments that follow
Pushed(t, rest) ==
    [st |-> rest.st, lines |-> <<Push(t.txt)>> \o rest.lines, cs |-> rest.cs]

\* one argument, translated to t
PushArg(C, extra, j, t) ==
    IF t.st # "ok" THEN [st |-> t.st, lines |-> <<>>, cs |-> t.cs]
    ELSE Pushed(t, PushArgs(C, t.cs, extra, j - 1))

\* for e in reversed(inst.extra): SET PUSH, operand
PushArgs(C, cs, extra, j) ==
    IF j < 1 THEN [st |-> "ok", lines |-> <<>>, cs |-> cs]
    ELSE PushArg(C, extra, j, _translate_operand(C, cs, extra[j], TRUE))

Reverse(seq) == [j \in 1..Len(seq) |-> seq[Len(seq) + 1 - j]]

\* the pops of _to_restore_on_exit, the epilogue and the return
ReturnLines(C) ==
    [j \in 1..Len(C.restore) |-> Pop(Reverse(C.restore)[j])]
    \o (IF C.need THEN <<Set(Reg("SP"), Reg("J")), Pop("J")>> ELSE <<>>)
    \o <<Pop("PC")>>

Lowered(E, lines) == [st |-> "ok", lines |-> lines, cs |-> E.cs, i |-> E.i]
Raised(E, st) == [st |-> st, lines |-> <<>>, cs |-> E.cs, i |-> E.i]

\* the lines of a CALL with the registers sv saved, the pushes args and the
\* target
CallLines(E, inst, sv, args, target) ==
    IF target.st # "ok" THEN Raised(E, target.st)
    ELSE [st |-> "ok",
          lines |-> [j \in 1..Len(sv.saved) |-> Push(Reg(sv.saved[j]))]
                    \o args.lines
                    \o <<Line("JSR", target.txt, NoText)>>
                    \o (IF Len(inst.extra) > 0
                        THEN <<Line("SUB", Reg("SP"), Num(Len(inst.extra)))>> ELSE <<>>)
                    \o [j \in 1..Len(sv.saved) |-> Pop(Reverse(sv.saved)[j])],
          cs |-> target.cs, i |-> E.i]

\* the JSR after the arguments are pushed
CallTarget(C, E, inst, sv, args) ==
    IF args.st # "ok" THEN Raised(E, args.st)
    ELSE CallLines(E, inst, sv, args, _translate_operand(C, args.cs, inst.oprs[1], FALSE))

\* the arguments after the registers are saved
CallArgs(C, E, inst, sv) ==
    IF sv.st # "ok" THEN Raised(E, sv.st)
    ELSE CallTarget(C, E, inst, sv, PushArgs(C, sv.cs, inst.extra, Len(inst.extra)))

\* the lowering of CALL
LowerCall(C, E, id, inst) == CallArgs(C, E, inst, SaveRegs(C, E.cs, E.cs, 1, E.i, id))

\* STORE, LOAD and ASSIGN_ADDROF of a spilled range: its index in _stored_lrs
LowerSlot(C, E, inst, dest) ==
    IF inst.extra \notin Range(C.stored) THEN Raised(E, "ValueError")
    ELSE LET i == ListIndex(C.stored, inst.extra)
             lines == CASE inst.op = "STORE" -> <<Set(Mem("J", "-", i + 1), dest)>>
                        [] inst.op = "LOAD" -> <<Set(dest, Mem("J", "-", i + 1))>>
                        [] OTHER -> <<Set(dest, Reg("J")), Line("ADD", dest, Num(i + 1))>>
         IN [st |-> "ok", lines |-> lines, cs |-> E.cs, i |-> i]

LowerAddrof(C, E, inst, dest) ==
    LET opr == inst.oprs[2]
    IN CASE opr.k = "none" -> LowerSlot(C, E, inst, dest)
         [] opr.k = "var" ->
               IF var_base(get_id(opr)) \in Range(C.params)
               THEN Lowered(E, <<Set(dest, Reg(IF C.need THEN "J" ELSE "SP")),
                                 Line("ADD", dest,
                                      Num(AddrofOffset(ListIndex(C.params, var_base(get_id(opr))))))>>)
               ELSE Raised(E, "AssertionError")
         [] opr.k = "name" -> Lowered(E, <<Set(dest, Reg("f"))>>)
         [] OTHER -> Raised(E, "AssertionError")

\* the mnemonic of the operations that cannot swap their operands
MnemonicOf(op) ==
    CASE op \in {"ASSIGN_SUB", "ASSIGN_SIGNED_SUB"} -> "SUB"
      [] op \in {"ASSIGN_DIV", "ASSIGN_SIGNED_DIV"} -> "DIV"
      [] op = "ASSIGN_MOD" -> "MOD"
      [] op = "ASSIGN_SIGNED_MOD" -> "MDI"

\* assert opr2 != dest; SET dest, opr1 unless they are the same; op dest, opr2
LowerNonCommutative(E, op, dest, opr1, opr2) ==
    IF opr2 = dest THEN Raised(E, "AssertionError")
    ELSE Lowered(E, (IF dest # opr1 THEN <<Set(dest, opr1)>> ELSE <<>>)
                    \o <<Line(MnemonicOf(op), dest, opr2)>>)

\* the branch of the opcode chain for one instruction (the opcodes of the
\* procedures translated here)
LowerOp(C, E, id, inst, dest, opr1, opr2) ==
    CASE inst.op = "ASSIGN_ADD" ->
            LET a == IF opr2 = dest THEN opr2 ELSE opr1
                b == IF opr2 = dest THEN opr1 ELSE opr2
            IN Lowered(E, (IF dest # a THEN <<Set(dest, a)>> ELSE <<>>)
                          \o <<Line("ADD", dest, b)>>)
      [] inst.op \in {"ASSIGN_SUB", "ASSIGN_SIGNED_SUB", "ASSIGN_DIV",
                    "ASSIGN_SIGNED_DIV", "ASSIGN_MOD", "ASSIGN_SIGNED_MOD"} ->
            LowerNonCommutative(E, inst.op, dest, opr1, opr2)
      [] inst.op = "ASSIGN" -> Lowered(E, IF dest # opr1 THEN <<Set(dest, opr1)>> ELSE <<>>)
      [] inst.op = "RET" ->
            Lowered(E, (IF dest # Reg("A") THEN <<Set(Reg("A"), dest)>> ELSE <<>>)
                       \o ReturnLines(C))
      [] inst.op = "RETN" -> Lowered(E, ReturnLines(C))
      [] inst.op = "JMP" -> Lowered(E, <<Set(Reg("PC"), dest)>>)
      [] inst.op = "JE" -> Lowered(E, <<Line("IFE", opr1, opr2), Line("SET?", Reg("PC"), dest)>>)
      [] inst.op = "CALL" -> LowerCall(C, E, id, inst)
      [] inst.op = "ASSIGN_CALL" -> Raised(E, "AttributeError")
      [] inst.op \in {"STORE", "LOAD"} -> LowerSlot(C, E, inst, dest)
      [] inst.op \in {"UNLOAD", "ASSIGN_PHI"} -> Lowered(E, <<>>)
      [] inst.op = "ASSIGN_ADDROF" -> LowerAddrof(C, E, inst, dest)
      [] OTHER -> Raised(E, "unmodelled")

\* the chain, after the three operands are translated
Lower3(C, E, id, inst, d, o1, o2) ==
    IF o2.st # "ok" THEN Raised(E, o2.st)
    ELSE LowerOp(C, [E EXCEPT !.cs = o2.cs], id, inst, d.txt, o1.txt, o2.txt)

Lower2(C, E, id, inst, d, o1) ==
    IF o1.st # "ok" THEN Raised(E, o1.st)
    ELSE Lower3(C, E, id, inst, d, o1, _translate_operand(C, o1.cs, inst.oprs[3], TRUE))

Lower1(C, E, id, inst, d) ==
    IF d.st # "ok" THEN Raised(E, d.st)
    ELSE Lower2(C, E, id, inst, d, _translate_operand(C, d.cs, inst.oprs[2], TRUE))

\* one iteration of the instruction loop: the three operands, then the chain
Lower(C, E, id, inst) ==
    Lower1(C, E, id, inst, _translate_operand(C, E.cs, inst.oprs[1], TRUE))

\* the emission state after an instruction is lowered to R
Emit(E, inst, R) ==
    [st |-> R.st, asm |-> E.asm \o R.lines, cs |-> R.cs, i |-> R.i + 1,
     segs |-> Append(E.segs, [inst |-> inst, st |-> R.st, lines |-> R.lines])]

RECURSIVE EmitInsts(_, _, _, _)
\* for inst in blk.get_instructions()
EmitInsts(C, E, id, n) ==
    IF E.st # "ok" \/ n > Len(C.g.blocks[id].insts) THEN E
    ELSE EmitInsts(C,
                   Emit(E, C.g.blocks[id].insts[n], Lower(C, E, id, C.g.blocks[id].insts[n])),
                   id, n + 1)

RECURSIVE EmitBlocks(_, _, _)
\* for blk in self._cfg.get_blocks()
EmitBlocks(C, E, id) ==
    IF E.st # "ok" \/ id > Len(C.g.blocks) THEN E
    ELSE EmitBlocks(C,
                    EmitInsts(C,
                              [E EXCEPT !.i = 0,
                                        !.asm = IF Len(C.g.blocks[id].prev) # 0
                                                THEN Append(@, Line("label", Blk(id), NoText))
                                                ELSE @],
                              id, 1),
                    id + 1)

RECURSIVE AllocateLoop(_, _, _, _)
\* while not self._color_graph(): ...; n bounds the iterations followed
AllocateLoop(g, A, k, n) ==
    IF A.st # "run" \/ n = 0 THEN A
    ELSE LET A2 == AllocateRound(g, A, k)
         IN AllocateLoop(WithBody(g, A2.body), A2, k, n - 1)

\* allocate(cfg, num_colors): the allocator's last state; its body is what
\* allocate leaves in the blocks of the CFG
allocate(g, k) == AllocateLoop(g, AllocateEntry(g), k, MaxSpills)

\* the keys of _live_range_map in insertion order, which is the order of
\* _color_map: the variables of the phis' ranges (a set's variables taken in
\* the order of their ids), then the other destinations in program order
ColorOrder(body) ==
    LET D == PhiPass([keys |-> <<>>, lr |-> <<>>], Flat(body), 1)
        flat == Flat(body)
        dests == [j \in 1..Len(flat) |-> get_id(flat[j].oprs[1])]
        defs == SelectSeq([j \in 1..Len(flat) |-> j],
                          LAMBDA j : is_opcode_assign(flat[j].op) \/ flat[j].op = "LOAD")
    IN AddKeys(AddKeys(<<>>, Concat([j \in 1..Len(D.keys) |-> SortIds(D.lr[D.keys[j]])])),
               [j \in 1..Len(defs) |-> dests[defs[j]]])

RECURSIVE RestoreList(_, _, _, _)
\* for color in self._reg_res._color_map.values()
RestoreList(order, res, j, acc) ==
    IF j > Len(order) THEN acc
    ELSE LET reg == _register_mapping[res[order[j]] + 1]
         IN IF reg \in {"X", "Y", "Z", "I"} /\ reg \notin Range(acc)
            THEN RestoreList(order, res, j + 1, Append(acc, reg))
            ELSE RestoreList(order, res, j + 1, acc)

\* the extra operands of the STOREs of a CFG, in the order of the scan
StoredIn(g) ==
    LET flat == Flat(BodyOf(g))
        at == SelectSeq([j \in 1..Len(flat) |-> j], LAMBDA j : flat[j].op = "STORE")
    IN [j \in 1..Len(at) |-> flat[at[j]].extra]

\* SET PUSH, J; SET J, SP; the pushes; SUB SP, len(_stored_lrs)
Prologue(C) ==
    IF ~C.need THEN <<>>
    ELSE <<Push(Reg("J")), Set(Reg("J"), Reg("SP"))>>
         \o [j \in 1..Len(C.restore) |-> Push(Reg(C.restore[j]))]
         \o (IF Len(C.stored) > 0 THEN <<Line("SUB", Reg("SP"), Num(Len(C.stored)))>> ELSE <<>>)

\* what translate_procedure leaves when it raises before any code is emitted
Aborted(T, proc, head, st) ==
    [T EXCEPT !.st = st, !.asm = @ \o head,
              !.log = Append(@, [proc |-> proc, st |-> st, g |-> EmptyCfg, res |-> <<>>,
                                 need |-> T.need, stored |-> T.stored, restore |-> <<>>,
                                 entry |-> <<>>, asm |-> <<>>, segs |-> <<>>])]

\* the .global line of an exported procedure
GlobalLine(proc) == IF proc.export THEN <<Line(".global", Reg(proc.name), NoText)>> ELSE <<>>

\* the translator after the blocks are translated: E is what the emission
\* loop leaves; the log gets the record of the procedure
WithCode(T, proc, C, entry, E) ==
    [st |-> E.st, need |-> C.need, stored |-> C.stored, cs |-> E.cs,
     asm |-> T.asm \o GlobalLine(proc) \o E.asm,
     log |-> Append(T.log, [proc |-> proc, st |-> E.st, g |-> C.g, res |-> C.res,
                            need |-> C.need, stored |-> C.stored, restore |-> C.restore,
                            entry |-> entry, asm |-> E.asm, segs |-> E.segs])]

\* the label and the prologue, then the blocks
WithEntry(T, proc, C, entry) ==
    WithCode(T, proc, C, entry,
                EmitBlocks(C, [st |-> "ok", asm |-> entry, cs |-> <<>>, i |-> 0,
                               segs |-> <<>>], 1))

\* the scan for STOREs and the registers to restore on exit, on the CFG g
\* that allocate left with the colours res
WithStores(T, proc, g, res, stores) ==
    LET C == [params |-> proc.params, res |-> res,
              need |-> T.need \/ stores # <<>>, stored |-> T.stored \o stores,
              g |-> g, restore |-> RestoreList(ColorOrder(BodyOf(g)), res, 1, <<>>)]
    IN WithEntry(T, proc, C, <<Line("label", Reg(proc.name), NoText)>> \o Prologue(C))

\* after reg_alloc.allocate(self._cfg, DCPU16_NUM_GP_REGISTERS) left A
WithAllocation(T, proc, g1, A) ==
    IF A.st # "done"
    THEN Aborted(T, proc, GlobalLine(proc), IF A.st = "run" THEN "running" ELSE A.st)
    ELSE WithStores(T, proc, WithBody(g1, A.body), A.res, StoredIn(WithBody(g1, A.body)))

\* after ssab.transform(self._cfg) left S on the CFG g0
WithSsa(T, proc, g0, S) ==
    IF S.st # "ok" THEN Aborted(T, proc, GlobalLine(proc), S.st)
    ELSE WithAllocation(T, proc, [SsaCfg(g0, S) EXCEPT !.type = "ssa"],
                     allocate([SsaCfg(g0, S) EXCEPT !.type = "ssa"], DCPU16_NUM_GP_REGISTERS))

\* after make_cfg(proc.get_body()) gave g0
WithCfg(T, proc, g0) == WithSsa(T, proc, g0, transform(g0))

\* translate_procedure(proc) on the translator T = [st, need, stored, cs,
\* asm, log]; log gets one record per procedure: its final CFG g, the
\* colours res, the label and prologue lines entry, all its lines asm and
\* the lines of every instruction segs
translate_procedure(T, proc) ==
    IF LeadersRaise(proc.body) THEN Aborted(T, proc, GlobalLine(proc), "IndexError")
    ELSE WithCfg(T, proc, build_graph(proc.body))

\* Dcpu16Translator()
NewTranslator ==
    [st |-> "ok", need |-> FALSE, stored |-> <<>>, cs |-> <<"A", "B", "C">>,
     asm |-> <<>>, log |-> <<>>]

(***************************************************************************)
(* The procedures the translation runs start from, each a [name, params,   *)
(* body, export]: with and without parameters, with four and with eight    *)
(* variables live at once (the second is spilled with seven registers),    *)
(* with calls (also after spill code, before a branch and in a loop), with *)
(* two returns, with a spilled variable that has two definitions, and with *)
(* a subtraction and a remainder.                                          *)
(***************************************************************************)
Proc(name, params, body) == [name |-> name, params |-> params, body |-> body, export |-> FALSE]

Call(args) == Inst("CALL", IrName, NoOpr, NoOpr, [j \in 1..Len(args) |-> V(args[j])])
AssignCall(d, args) ==
    Inst("ASSIGN_CALL", V(d), IrName, NoOpr, [j \in 1..Len(args) |-> V(args[j])])
Addrof(d, a) == Inst("ASSIGN_ADDROF", V(d), V(a), NoOpr, <<>>)
Jec(off) == Inst("JE", IrOffset(off), IrConst, IrConst, <<>>)
Subtract(d, a, b) == Inst("ASSIGN_SUB", V(d), V(a), V(b), <<>>)
Remainder(d, a, b) == Inst("ASSIGN_MOD", V(d), V(a), V(b), <<>>)

\* n variables set, then summed up into variable n + 1, which is returned
Sum(n) ==
    [j \in 1..n |-> Asg(j)] \o <<Add(n + 1, 1, 2)>>
    \o [j \in 1..(n - 2) |-> Add(n + 1, n + 1, j + 2)] \o <<Ret(n + 1)>>

\* the same with a call between the assignments and the sum
SumAfterCall(n) ==
    SubSeq(Sum(n), 1, n) \o <<Call(<<>>)>> \o SubSeq(Sum(n), n + 1, Len(Sum(n)))

\* variable n + 3 is set on both sides of a branch and added to the sum of n
\* variables at the end, so that it is live across the whole sum
SumAfterBranch(n) ==
    <<Jec(2), Asg(n + 3), Jmp(1), Asg(n + 3)>> \o SubSeq(Sum(n), 1, Len(Sum(n)) - 1)
    \o <<Add(n + 1, n + 1, n + 3), Ret(n + 1)>>

\* two sums of two variables each, added and returned
FourLive == <<Asg(1), Asg(2), Asg(3), Asg(4), Add(5, 1, 2), Add(6, 3, 4), Add(7, 5, 6), Ret(7)>>

Procedures ==
    {Proc("small", <<>>, <<Asg(1), Ret(1)>>),
     Proc("none", <<>>, <<Retn>>),
     Proc("four", <<>>, FourLive),
     Proc("eight", <<>>, Sum(8)),
     Proc("eightp", <<20, 21>>, <<Cp(10, 21), Addrof(11, 20)>> \o Sum(8)),
     Proc("par", <<1, 2>>, <<Cp(3, 2), Addrof(4, 1), Ret(3)>>),
     Proc("cal", <<>>, <<Asg(1), Asg(2), Call(<<1, 2>>), Ret(1)>>),
     Proc("cal0", <<>>, <<Asg(1), Call(<<>>), Retn>>),
     Proc("acal", <<>>, <<Asg(1), AssignCall(2, <<1>>), Ret(2)>>),
     Proc("two", <<>>, <<Jec(2), Asg(1), Ret(1), Asg(2), Asg(3), Asg(4), Asg(5),
                         Add(6, 2, 3), Add(7, 4, 5), Add(8, 6, 7), Retn>>),
     Proc("eightc", <<>>, SumAfterCall(8)),
     Proc("bra", <<>>, <<Asg(1), Call(<<>>), Jec(2), Asg(2), Ret(2), Ret(1)>>),
     Proc("loop", <<>>, <<Asg(1), Add(2, 1, 1), Call(<<>>), Jmp(-3)>>),
     Proc("phi", <<>>, SumAfterBranch(7)),
     Proc("sub", <<>>, <<Asg(1), Asg(2), Subtract(3, 1, 2), Ret(3)>>),
     Proc("subr", <<>>, <<Asg(1), Asg(2), Subtract(3, 2, 1), Ret(3)>>),
     Proc("mod", <<>>, <<Asg(1), Asg(2), Remainder(3, 1, 2), Add(4, 3, 2), Ret(4)>>)}

ProcLists(m) ==
    UNION {[1..n -> Procedures] : n \in 1..m}
    \cup {<<[p EXCEPT !.export = TRUE]>> : p \in Procedures}

(***************************************************************************)
(* main.py: one Dcpu16Translator translates the procedures of a file in    *)
(* order.  tr is the translator with the procedures still to translate.    *)
(***************************************************************************)
InitTranslate ==
    /\ insts = <<>> /\ numColors = DCPU16_NUM_GP_REGISTERS /\ phase = "translate"
    /\ opc = NoOpc
    /\ cfg = NoCfg /\ dom = NoDom /\ ssa = NoSsa /\ alloc = NoAlloc /\ rounds = 0
    /\ peep = NoPeep /\ lnk = NoLnk
    /\ \E procs \in ProcLists(MaxProcs) :
          tr = [T |-> NewTranslator, procs |-> procs]

\* translator.translate_procedure(proc) for the next procedure
TranslateProcedure ==
    /\ tr.T.st = "ok"
    /\ Len(tr.T.log) < Len(tr.procs)
    /\ tr' = [tr EXCEPT !.T = translate_procedure(@, tr.procs[Len(tr.T.log) + 1])]
    /\ UNCHANGED <<insts, numColors, phase, cfg, dom, ssa, alloc, rounds, peep, lnk, opc>>

\* asm = translator.get_asm() after the last procedure
GetAsm ==
    /\ tr.T.st = "ok"
    /\ Len(tr.T.log) = Len(tr.procs)
    /\ phase = "translate"
    /\ phase' = "translated"
    /\ UNCHANGED <<insts, numColors, cfg, dom, ssa, alloc, rounds, backend, opc>>

NextTranslate == TranslateProcedure \/ GetAsm

SpecTranslate == InitTranslate /\ [][NextTranslate]_vars

\* the text is two lines that TWO_SAME_OPS folds
IsFoldText(text) == Len(text) = 2 /\ Matches("TWO_SAME_OPS", text, 1)

\* the 16-bit word in the register of line after the line is executed with
\* the word x in it
Execute(line, x) ==
    CASE line.op = "ADD" -> (x + line.b.c) % (2^16)
      [] line.op = "SUB" -> (x - line.b.c) % (2^16)
      [] line.op = "MUL" -> (x * line.b.c) % (2^16)

\* C25: when the optimizer folds OP r, k1; OP r, k2 into one line OP r, k,
\* executing the one line changes r as executing the two lines in order
\* does, modulo 2^16.
FoldKeepsEffect ==
    (phase = "optimized" /\ IsFoldText(peep.input)) =>
        /\ Len(peep.new_asm) = 1
        /\ peep.new_asm[1].op = peep.input[1].op
        /\ peep.new_asm[1].a = peep.input[1].a
        /\ \A x \in {0, 1, 2, 2^16 - 1} :
              Execute(peep.new_asm[1], x) = Execute(peep.input[2], Execute(peep.input[1], x))

\* the same for the texts with k1 = k2 and an operation other than SUB
FoldKeepsEffectSquare ==
    (/\ phase = "optimized" /\ IsFoldText(peep.input)
     /\ peep.input[1].b = peep.input[2].b /\ peep.input[1].op # "SUB") =>
        /\ Len(peep.new_asm) = 1
        /\ \A x \in {0, 1, 2, 2^16 - 1} :
              Execute(peep.new_asm[1], x) = Execute(peep.input[2], Execute(peep.input[1], x))

(***************************************************************************)
(* Properties of the translation, checked on SpecTranslate.                *)
(***************************************************************************)
\* the procedures for which code was emitted, and those translated to the end
Emitted == {j \in 1..Len(tr.T.log) : tr.T.log[j].entry # <<>>}
Translated == {j \in Emitted : tr.T.log[j].st = "ok"}

\* the label is followed by SET PUSH, J; SET J, SP
HasPrologue(r) ==
    /\ Len(r.entry) >= 3
    /\ r.entry[2] = Push(Reg("J"))
    /\ r.entry[3] = Set(Reg("J"), Reg("SP"))

\* the amounts the entry code subtracts from SP
SpAmounts(r) ==
    {r.entry[j].b.c : j \in {n \in 1..Len(r.entry) :
                                r.entry[n].op = "SUB" /\ r.entry[n].a = Reg("SP")}}

\* the base registers of the memory operands in the lines of a procedure
MemBases(r) ==
    {o.r : o \in {q \in UNION {{r.asm[j].a, r.asm[j].b} : j \in 1..Len(r.asm)} :
                     q.k = "mem" /\ q.s # ""}}

\* C11: for every procedure a translator translates, also after it has
\* translated others, the prologue SET PUSH, J; SET J, SP is emitted exactly
\* when the procedure's final CFG has a STORE, the amount subtracted from
\* SP is the number of that procedure's spill slots, and without a STORE
\* the parameters are addressed from SP.
PrologueIffStore ==
    \A j \in Emitted :
        LET r == tr.T.log[j]
            slots == Range(StoredIn(r.g))
        IN /\ HasPrologue(r) <=> slots # {}
           /\ SpAmounts(r) = IF slots = {} THEN {} ELSE {Cardinality(slots)}
           /\ slots = {} => "J" \notin MemBases(r)

\* the callee-saved registers pushed by the entry code, in order
EntryPushes(r) ==
    LET at == SelectSeq([j \in 1..Len(r.entry) |-> j],
                        LAMBDA j : /\ r.entry[j].op = "SET" /\ r.entry[j].a = Reg("PUSH")
                                   /\ r.entry[j].b.r \in {"X", "Y", "Z", "I"})
    IN [j \in 1..Len(at) |-> r.entry[at[j]].b.r]

\* the callee-saved registers popped by the lines of one instruction, in order
PopsOf(lines) ==
    LET at == SelectSeq([j \in 1..Len(lines) |-> j],
                        LAMBDA j : /\ lines[j].op = "SET" /\ lines[j].b = Reg("POP")
                                   /\ lines[j].a.r \in {"X", "Y", "Z", "I"})
    IN [j \in 1..Len(at) |-> lines[at[j]].a.r]

\* the callee-saved registers the colours of a procedure use
UsedCalleeSaved(r) ==
    {reg \in {"X", "Y", "Z", "I"} :
        \E v \in DOMAIN r.res : _register_mapping[r.res[v] + 1] = reg}

\* C12: in the assembly of one procedure every callee-saved register the
\* allocation uses is pushed exactly once on entry, and every RET and RETN
\* pops the same registers in the reverse order of the pushes, with or
\* without a prologue.
SavedRestored ==
    \A j \in Translated :
        LET r == tr.T.log[j]
        IN /\ \A reg \in UsedCalleeSaved(r) :
                 Cardinality({n \in 1..Len(EntryPushes(r)) : EntryPushes(r)[n] = reg}) = 1
           /\ \A n \in 1..Len(r.segs) :
                 r.segs[n].inst.op \in {"RET", "RETN"} =>
                    PopsOf(r.segs[n].lines) = Reverse(EntryPushes(r))

\* the context of a translated procedure
ContextOf(r) ==
    [params |-> r.proc.params, res |-> r.res, need |-> r.need, stored |-> r.stored,
     g |-> r.g, restore |-> r.restore]

\* the lists of distinct caller-saved registers
SavedLists ==
    {sv \in UNION {[1..n -> {"A", "B", "C"}] : n \in 0..3} :
        \A a, b \in 1..Len(sv) : a # b => sv[a] # sv[b]}

\* the lines the lowering of a call is to give for the saved registers sv
CallShape(C, inst, sv) ==
    LET target == IF inst.op = "CALL" THEN inst.oprs[1] ELSE inst.oprs[2]
        dest == _translate_operand(C, <<>>, inst.oprs[1], TRUE).txt
        N == Len(inst.extra)
    IN [j \in 1..Len(sv) |-> Push(Reg(sv[j]))]
       \o [j \in 1..N |-> Push(_translate_operand(C, <<>>, inst.extra[N + 1 - j], TRUE).txt)]
       \o <<Line("JSR", _translate_operand(C, <<>>, target, FALSE).txt, NoText)>>
       \o (IF N > 0 THEN <<Line("SUB", Reg("SP"), Num(N))>> ELSE <<>>)
       \o [j \in 1..Len(sv) |-> Pop(Reverse(sv)[j])]
       \o (IF inst.op = "ASSIGN_CALL" /\ dest # Reg("A") THEN <<Set(dest, Reg("A"))>> ELSE <<>>)

\* C13: the lowering of every CALL and ASSIGN_CALL with N extra operands
\* completes and gives, in this order, the pushes of the saved registers,
\* the N arguments from the last to the first, one JSR to the target,
\* SUB SP, N when N > 0, the pops of the saved registers in reverse, and
\* for ASSIGN_CALL SET dest, A unless dest is A.
CallsLowered ==
    \A j \in Emitted :
        LET r == tr.T.log[j]
        IN \A n \in 1..Len(r.segs) :
              r.segs[n].inst.op \in {"CALL", "ASSIGN_CALL"} =>
                 /\ r.segs[n].st = "ok"
                 /\ \E sv \in SavedLists :
                       r.segs[n].lines = CallShape(ContextOf(r), r.segs[n].inst, sv)

\* the index of the parameter an operand names
ParamIndex(r, opr) == ListIndex(r.proc.params, var_base(get_id(opr)))
IsParam(r, opr) == IsVar(opr) /\ var_base(get_id(opr)) \in Range(r.proc.params)

\* the register parameters are addressed from
FrameBase(r) == IF HasPrologue(r) THEN "J" ELSE "SP"

\* C14: a read of parameter i is lowered to the memory operand at offset
\* i + 1 from J when a prologue is emitted and from SP when it is not, and
\* ASSIGN_ADDROF of parameter i computes the address of that same word, the
\* base register plus i + 1.
ParamsAddressed ==
    \A j \in Translated :
        LET r == tr.T.log[j]
        IN \A n \in 1..Len(r.segs) :
              LET inst == r.segs[n].inst
                  lines == r.segs[n].lines
              IN /\ (inst.op = "ASSIGN" /\ IsParam(r, inst.oprs[2])) =>
                       /\ Len(lines) = 1
                       /\ lines[1].b = Mem(FrameBase(r), "+", ParamIndex(r, inst.oprs[2]) + 1)
                 /\ (inst.op = "ASSIGN_ADDROF" /\ IsParam(r, inst.oprs[2])) =>
                       /\ Len(lines) = 2
                       /\ lines[1].b = Reg(FrameBase(r))
                       /\ lines[2] = Line("ADD", lines[1].a, Num(ParamIndex(r, inst.oprs[2]) + 1))

\* the block of the n-th translated instruction of g and its index there
InstsBefore(g, b) == Len(Flat(SubSeq(BodyOf(g), 1, b - 1)))
SegBlock(g, n) ==
    CHOOSE b \in BlockIds(g) :
        InstsBefore(g, b) < n /\ n <= InstsBefore(g, b) + Len(g.blocks[b].insts)
SegIndex(g, n) == n - InstsBefore(g, SegBlock(g, n)) - 1

\* the caller-saved registers for which the scan that starts after
\* instruction c of block id finds a read first
SavedFrom(C, id, c) ==
    SelectSeq(<<"A", "B", "C">>,
              LAMBDA reg : _should_save_reg(C, <<"A", "B", "C">>, c, id, reg).val)

\* the lowered calls of a procedure
LoweredCalls(r) ==
    {n \in 1..Len(r.segs) : r.segs[n].inst.op = "CALL" /\ r.segs[n].st = "ok"}

\* C23: for a CALL at index c of block B the registers saved are those for
\* which the scan of B[c+1..] and then of the blocks reached through the
\* successor lists meets a read of the register first; the scan starts at
\* c + 1 also when LOAD, STORE or ASSIGN_ADDROF of a spill slot precede the
\* call in B.
SavesScanFromCall ==
    \A j \in Emitted :
        LET r == tr.T.log[j]
        IN \A n \in LoweredCalls(r) :
              r.segs[n].lines =
                 CallShape(ContextOf(r), r.segs[n].inst,
                           SavedFrom(ContextOf(r), SegBlock(r.g, n), SegIndex(r.g, n)))

\* the same for the calls that no LOAD, STORE or ASSIGN_ADDROF precedes in
\* their block
NoSlotBefore(g, id, c) ==
    \A k \in 1..c : g.blocks[id].insts[k].op \notin {"LOAD", "STORE", "ASSIGN_ADDROF"}
SavesScanFromCallNoSlot ==
    \A j \in Emitted :
        LET r == tr.T.log[j]
        IN \A n \in LoweredCalls(r) :
              NoSlotBefore(r.g, SegBlock(r.g, n), SegIndex(r.g, n)) =>
                 r.segs[n].lines =
                    CallShape(ContextOf(r), r.segs[n].inst,
                              SavedFrom(ContextOf(r), SegBlock(r.g, n), SegIndex(r.g, n)))

\* the STOREs and LOADs of a procedure, and the memory operand of the line
\* one of them is lowered to
SlotAccesses(r) == {n \in 1..Len(r.segs) : r.segs[n].inst.op \in {"STORE", "LOAD"}}
SlotOperand(s) == IF s.inst.op = "STORE" THEN s.lines[1].a ELSE s.lines[1].b

\* the spilled live ranges of a procedure
SpilledRanges(r) == {r.segs[n].inst.extra : n \in SlotAccesses(r)}

\* C24: every STORE and LOAD of a procedure is lowered to one access of a
\* slot [J - (i + 1)]; i is the same for the accesses of one live range,
\* differs between live ranges and is smaller than the amount the prologue
\* subtracts from SP, which is the number of distinct spilled live ranges.
SlotsPerRange ==
    \A j \in Translated :
        LET r == tr.T.log[j]
        IN /\ \A n \in SlotAccesses(r) :
                 /\ r.segs[n].st = "ok"
                 /\ Len(r.segs[n].lines) = 1
                 /\ SlotOperand(r.segs[n]).k = "mem"
                 /\ SlotOperand(r.segs[n]).r = "J"
                 /\ SlotOperand(r.segs[n]).s = "-"
                 /\ \A amount \in SpAmounts(r) : SlotOperand(r.segs[n]).c - 1 < amount
           /\ \A n, m \in SlotAccesses(r) :
                 (r.segs[n].inst.extra = r.segs[m].inst.extra)
                    <=> (SlotOperand(r.segs[n]).c = SlotOperand(r.segs[m]).c)
           /\ SpilledRanges(r) # {} => SpAmounts(r) = {Cardinality(SpilledRanges(r))}

\* the same without the last part: the slots alone
SlotsDistinct ==
    \A j \in Translated :
        LET r == tr.T.log[j]
        IN /\ \A n \in SlotAccesses(r) :
                 /\ r.segs[n].st = "ok"
                 /\ Len(r.segs[n].lines) = 1
                 /\ SlotOperand(r.segs[n]).k = "mem"
                 /\ SlotOperand(r.segs[n]).r = "J"
                 /\ SlotOperand(r.segs[n]).s = "-"
                 /\ \A amount \in SpAmounts(r) : SlotOperand(r.segs[n]).c - 1 < amount
           /\ \A n, m \in SlotAccesses(r) :
                 (r.segs[n].inst.extra = r.segs[m].inst.extra)
                    <=> (SlotOperand(r.segs[n]).c = SlotOperand(r.segs[m]).c)

\* the operations whose lowering asserts opr2 != dest
NonCommutativeOps ==
    {"ASSIGN_SUB", "ASSIGN_SIGNED_SUB", "ASSIGN_DIV", "ASSIGN_SIGNED_DIV",
     "ASSIGN_MOD", "ASSIGN_SIGNED_MOD"}

\* the lowered instructions of a procedure that are such operations
NonCommutativeSegs(r) ==
    {n \in 1..Len(r.segs) : r.segs[n].inst.op \in NonCommutativeOps}

\* the text of operand slot k of the n-th lowered instruction
OperandText(r, n, k) ==
    _translate_operand(ContextOf(r), <<>>, r.segs[n].inst.oprs[k], TRUE).txt

\* C27: for every procedure that passes SSA construction and allocation the
\* lowering of a subtraction, division or remainder never fails its
\* assertion: the destination and the right operand are in different
\* registers, also when the right operand is not live after the instruction.
NonCommutativeLowered ==
    \A j \in Emitted :
        LET r == tr.T.log[j]
        IN \A n \in NonCommutativeSegs(r) :
              /\ r.segs[n].st # "AssertionError"
              /\ OperandText(r, n, 1) # OperandText(r, n, 3)

\* the same for the instructions whose right operand is read again by a later
\* instruction of the procedure
RightReadLater(r, n) ==
    \E m \in (n + 1)..Len(r.segs) :
        \E k \in ReadSlots(r.segs[m].inst.op) :
            r.segs[m].inst.oprs[k] = r.segs[n].inst.oprs[3]
NonCommutativeLoweredLive ==
    \A j \in Emitted :
        LET r == tr.T.log[j]
        IN \A n \in NonCommutativeSegs(r) :
              RightReadLater(r, n) =>
                 /\ r.segs[n].st # "AssertionError"
                 /\ OperandText(r, n, 1) # OperandText(r, n, 3)
\* a remainder whose right operand is read later was lowered
SomeRemainderLowered ==
    \E j \in Emitted :
        \E n \in NonCommutativeSegs(tr.T.log[j]) :
            RightReadLater(tr.T.log[j], n) /\ tr.T.log[j].segs[n].st = "ok"

\* the register a variable operand is in ("" for the other operands and for
\* parameters, which are on the stack)
RegOf(C, opr) ==
    IF IsVar(opr) /\ var_base(get_id(opr)) \notin Range(C.params)
       /\ get_id(opr) \in DOMAIN C.res
    THEN _register_mapping[C.res[get_id(opr)] + 1]
    ELSE ""

\* the operands an instruction reads and the one it writes, as the lowering
\* uses them: every slot and extra operand other than a destination is read
WrittenOpr(inst) ==
    IF Defines(inst) \/ inst.op = "LOAD" THEN {inst.oprs[1]} ELSE {}
ReadOprSet(inst) ==
    CASE inst.op \in {"ASSIGN_PHI", "LOAD", "UNLOAD"} -> {}
      [] inst.op = "STORE" -> {inst.oprs[1]}
      [] OTHER -> (Range(inst.oprs) \cup Range(inst.extra)) \ WrittenOpr(inst)
ReadsReg(C, inst, reg) == \E o \in ReadOprSet(inst) : RegOf(C, o) = reg
WritesReg(C, inst, reg) == \E o \in WrittenOpr(inst) : RegOf(C, o) = reg

\* from position from on, block b reads reg before it writes it; it does not
\* write it
RegReadFirst(C, b, from, reg) ==
    \E i \in from..Len(C.g.blocks[b].insts) :
        /\ ReadsReg(C, C.g.blocks[b].insts[i], reg)
        /\ \A k \in from..(i - 1) : ~WritesReg(C, C.g.blocks[b].insts[k], reg)
RegKept(C, b, from, reg) ==
    \A i \in from..Len(C.g.blocks[b].insts) : ~WritesReg(C, C.g.blocks[b].insts[i], reg)

RECURSIVE RegPaths(_, _, _)
\* the blocks entered on a path that has not written reg, from the blocks have
RegPaths(C, reg, have) ==
    LET more == have \cup UNION {Range(C.g.blocks[b].next) :
                                   b \in {x \in have : RegKept(C, x, 1, reg)}}
    IN IF more = have THEN have ELSE RegPaths(C, reg, more)

\* some path from the instruction after position c of block b (the call's own
\* block entered again included) reads reg before it is written
ReadAfter(C, b, c, reg) ==
    \/ RegReadFirst(C, b, c + 1, reg)
    \/ /\ RegKept(C, b, c + 1, reg)
       /\ \E x \in RegPaths(C, reg, Range(C.g.blocks[b].next)) : RegReadFirst(C, x, 1, reg)

\* the lines of a lowered call push reg and pop it
SavedAround(lines, reg) == Push(Reg(reg)) \in Range(lines) /\ Pop(reg) \in Range(lines)

\* C28: if a caller-saved register is read on some path from the instruction
\* after a CALL before it is written, paths round a loop into the call's own
\* block included, the lowering of the call pushes the register before the
\* call and pops it after, whatever the order of the successor blocks.
SavesLiveRegisters ==
    \A j \in Emitted :
        LET r == tr.T.log[j]
        IN \A n \in LoweredCalls(r) :
              \A reg \in {"A", "B", "C"} :
                  ReadAfter(ContextOf(r), SegBlock(r.g, n), SegIndex(r.g, n) + 1, reg)
                     => SavedAround(r.segs[n].lines, reg)

\* the same for the reads in the rest of the call's own block, when no LOAD,
\* STORE or ASSIGN_ADDROF precedes the call there
SavesLiveRegistersInBlock ==
    \A j \in Emitted :
        LET r == tr.T.log[j]
        IN \A n \in LoweredCalls(r) :
              \A reg \in {"A", "B", "C"} :
                  (/\ NoSlotBefore(r.g, SegBlock(r.g, n), SegIndex(r.g, n))
                   /\ RegReadFirst(ContextOf(r), SegBlock(r.g, n), SegIndex(r.g, n) + 2, reg))
                     => SavedAround(r.segs[n].lines, reg)
\* a call was lowered that a read of a caller-saved register follows in its
\* block
SomeRegisterSaved ==
    \E j \in Emitted :
        \E n \in LoweredCalls(tr.T.log[j]) :
            \E reg \in {"A", "B", "C"} :
                /\ RegReadFirst(ContextOf(tr.T.log[j]), SegBlock(tr.T.log[j].g, n),
                                SegIndex(tr.T.log[j].g, n) + 2, reg)
                /\ SavedAround(tr.T.log[j].segs[n].lines, reg)

(***************************************************************************)
(* The stack machine the emitted lines are for: 16-bit registers and       *)
(* words, PUSH stores at the decremented SP, POP reads at SP and            *)
(* increments it.  On entry SP points at the caller's return address.      *)
(***************************************************************************)
MachineRegs == <<"A", "B", "C", "X", "Y", "Z", "I", "J", "PC">>

\* a machine on entry of a procedure: every register has a word of its own,
\* the stack has room below SP, and the word at SP is the return address
EntryMachine ==
    [sp |-> 2^5,
     reg |-> [x \in Range(MachineRegs) |-> 2^10 + IndexOf(MachineRegs, x)],
     mem |-> [a \in 0..(2^5) |-> IF a = 2^5 THEN 2^11 ELSE 2^12 + a]]

ReturnAddress == EntryMachine.mem[EntryMachine.sp]

\* the address of a memory operand
AddressOf(M, o) ==
    LET base == IF o.r = "SP" THEN M.sp ELSE M.reg[o.r]
    IN (IF o.s = "-" THEN base - o.c ELSE base + o.c) % (2^16)

\* the word a source operand gives, and the machine after the operand is read
ValueOf(M, o) ==
    CASE o.k = "num" -> o.c % (2^16)
      [] o.k = "mem" -> M.mem[AddressOf(M, o)]
      [] o = Reg("POP") -> M.mem[M.sp]
      [] o = Reg("SP") -> M.sp
      [] OTHER -> M.reg[o.r]
AfterRead(M, o) == IF o = Reg("POP") THEN [M EXCEPT !.sp = (@ + 1) % (2^16)] ELSE M

\* the machine after the word w is written to a destination operand
Written(M, o, w) ==
    CASE o = Reg("PUSH") ->
            [M EXCEPT !.sp = (@ - 1) % (2^16), !.mem[(M.sp - 1) % (2^16)] = w]
      [] o.k = "mem" -> [M EXCEPT !.mem[AddressOf(M, o)] = w]
      [] o = Reg("SP") -> [M EXCEPT !.sp = w]
      [] OTHER -> [M EXCEPT !.reg[o.r] = w]

\* the machine after one line
ExecLine(M, line) ==
    CASE line.op = "SET" -> Written(AfterRead(M, line.b), line.a, ValueOf(M, line.b))
      [] line.op = "SUB" ->
            Written(M, line.a, (ValueOf(M, line.a) - ValueOf(M, line.b)) % (2^16))
      [] line.op = "ADD" ->
            Written(M, line.a, (ValueOf(M, line.a) + ValueOf(M, line.b)) % (2^16))
      [] OTHER -> M

RECURSIVE ExecLines(_, _, _)
ExecLines(M, lines, n) ==
    IF n > Len(lines) THEN M ELSE ExecLines(ExecLine(M, lines[n]), lines, n + 1)

\* the lines of the spill-slot stores of a procedure, in order
StoreLines(r) ==
    Concat([n \in 1..Len(r.segs) |->
               IF r.segs[n].inst.op = "STORE" THEN r.segs[n].lines ELSE <<>>])

\* the returns of a procedure
Returns(r) == {n \in 1..Len(r.segs) : r.segs[n].inst.op \in {"RET", "RETN"}}

\* the machine after the entry code, the stores and the return n of r
AfterReturn(r, n) ==
    ExecLines(EntryMachine, r.entry \o StoreLines(r) \o r.segs[n].lines, 1)

\* the callee-saved registers and J are as on entry, the return address is in
\* PC and the stack is as the caller left it, less the return address
Restored(M) ==
    /\ \A x \in {"X", "Y", "Z", "I", "J"} : M.reg[x] = EntryMachine.reg[x]
    /\ M.reg["PC"] = ReturnAddress
    /\ M.sp = EntryMachine.sp + 1

\* C29: for a procedure with a prologue, the entry code, then the spill-slot
\* stores of the body, then a return sequence leave the callee-saved
\* registers and J as they were on entry and jump to the return address.
FrameRestored ==
    \A j \in Translated :
        LET r == tr.T.log[j]
        IN HasPrologue(r) => \A n \in Returns(r) : Restored(AfterReturn(r, n))

\* the same for the procedures that use no callee-saved register
FrameRestoredNoSaved ==
    \A j \in Translated :
        LET r == tr.T.log[j]
        IN (HasPrologue(r) /\ r.restore = <<>>) =>
              \A n \in Returns(r) : Restored(AfterReturn(r, n))
\* a procedure with a prologue and without callee-saved registers returned
SomeFrameRestored ==
    \E j \in Translated :
        /\ HasPrologue(tr.T.log[j]) /\ tr.T.log[j].restore = <<>>
        /\ \E n \in Returns(tr.T.log[j]) : Restored(AfterReturn(tr.T.log[j], n))

(***************************************************************************)
(* Properties of SsaBuilder.transform on the variables the root block      *)
(* reads before any definition (the parameters), checked on SpecSsa.       *)
(***************************************************************************)
RootInsts(g) == g.blocks[g.root].insts

\* the ids an instruction reads that have base v; the instruction assigns v
ReadsOfBase(inst, v) == {x \in ReadVars(inst) : var_base(x) = v}
DefinesBase(inst, v) == Defines(inst) /\ var_base(get_id(inst.oprs[1])) = v

\* instruction k of the root block reads v before the block has assigned it
ReadsUndefined(g, k, v) ==
    /\ ReadsOfBase(RootInsts(g)[k], v) # {}
    /\ \A m \in 1..(k - 1) : ~DefinesBase(RootInsts(g)[m], v)

\* the root block reads v before any definition and assigns it later
ReadThenAssigned(g, v) ==
    \E k \in 1..Len(RootInsts(g)) :
        /\ ReadsUndefined(g, k, v)
        /\ \E i \in k..Len(RootInsts(g)) : DefinesBase(RootInsts(g)[i], v)

\* transform has run on a CFG whose blocks are all reachable from a root
\* without predecessors, and the dominance analysis returned
TransformedEntered ==
    /\ phase \in {"ssa", "ssa_error"}
    /\ dom.st = "ok"
    /\ Reachable(cfg) = BlockIds(cfg)
    /\ cfg.blocks[cfg.root].prev = <<>>

\* the bases of the variables of the CFG
BasesOf(g) == {var_base(v) : v \in OperandVars(g)}

\* every read of the root block that comes before any definition of its
\* variable has the initial version, and a later assignment of the variable
\* in the root block a newer one
InitialVersions(g) ==
    \A v \in BasesOf(g) : \A k \in 1..Len(RootInsts(g)) :
        ReadsUndefined(g, k, v) =>
            /\ \A x \in ReadsOfBase(RootInsts(g)[k], v) : var_subscript(x) = 1
            /\ \A i \in k..Len(RootInsts(g)) :
                  DefinesBase(RootInsts(g)[i], v) =>
                      var_subscript(get_id(RootInsts(g)[i].oprs[1])) > 1

\* C30: transform completes for every CFG in which the variables read before
\* any definition are parameters, also when the root block reads such a
\* variable and assigns it later: the read gets the initial version and the
\* write a new one.
ParametersRenamed ==
    TransformedEntered => (phase = "ssa" /\ InitialVersions(cfg))

\* the same for the CFGs whose root block assigns no variable it has read
\* before
ParametersRenamedUnassigned ==
    (TransformedEntered /\ \A v \in BasesOf(cfg) : ~ReadThenAssigned(cfg, v))
        => (phase = "ssa" /\ InitialVersions(cfg))
\* transform has renamed a root block that reads a variable it never assigned
SomeParameterRenamed ==
    /\ TransformedEntered /\ phase = "ssa"
    /\ \E v \in BasesOf(cfg) : \E k \in 1..Len(RootInsts(cfg)) : ReadsUndefined(cfg, k, v)
    /\ InitialVersions(cfg)

(***************************************************************************)
(* ir.py: the members of IrOpcode and their projections.  opc holds the    *)
(* member and, for each projection that was called on it, what the call    *)
(* gave: a value, or the KeyError of get_opcode_class's dictionary.        *)
(***************************************************************************)
IrOpcodes ==
    {"UNDEF", "ASSIGN", "ASSIGN_ADD", "ASSIGN_SUB", "ASSIGN_MUL", "ASSIGN_DIV",
     "ASSIGN_MOD", "ASSIGN_SIGNED_ADD", "ASSIGN_SIGNED_SUB", "ASSIGN_SIGNED_MUL",
     "ASSIGN_SIGNED_DIV", "ASSIGN_SIGNED_MOD", "ASSIGN_OR", "ASSIGN_AND",
     "ASSIGN_XOR", "ASSIGN_CALL", "ASSIGN_CALL_PTR", "CALL", "CALL_PTR", "RETN",
     "RET", "WRITE", "ASSIGN_READ", "ASSIGN_ADDROF", "CMP", "JMP", "JE", "JNE",
     "JL", "JLE", "JG", "JGE", "ASSIGN_PHI", "LOAD", "STORE", "UNLOAD"}

NotCalled == [st |-> "none"]
Returned(val) == [st |-> "ok", val |-> val]
\* what a projection that looks the class up gives
ViaClass(op, val) ==
    IF get_opcode_class(op) = "KeyError" THEN [st |-> "KeyError"] ELSE Returned(val)

InitOpcode ==
    /\ insts = <<>> /\ numColors = 0 /\ phase = "opcode"
    /\ cfg = NoCfg /\ dom = NoDom /\ ssa = NoSsa /\ alloc = NoAlloc /\ rounds = 0
    /\ tr = NoTr /\ peep = NoPeep /\ lnk = NoLnk
    /\ \E op \in IrOpcodes :
          opc = [op |-> op, is_assign |-> NotCalled, count |-> NotCalled,
                 extra |-> NotCalled]

\* op.is_opcode_assign()
CallIsOpcodeAssign ==
    /\ phase = "opcode" /\ opc.is_assign = NotCalled
    /\ opc' = [opc EXCEPT !.is_assign = Returned(is_opcode_assign(opc.op))]
    /\ UNCHANGED <<insts, numColors, phase, cfg, dom, ssa, alloc, rounds, backend>>

\* op.get_operand_count()
CallGetOperandCount ==
    /\ phase = "opcode" /\ opc.count = NotCalled
    /\ opc' = [opc EXCEPT !.count = ViaClass(opc.op, get_operand_count(opc.op))]
    /\ UNCHANGED <<insts, numColors, phase, cfg, dom, ssa, alloc, rounds, backend>>

\* op.has_extra_operands()
CallHasExtraOperands ==
    /\ phase = "opcode" /\ opc.extra = NotCalled
    /\ opc' = [opc EXCEPT !.extra = ViaClass(opc.op, has_extra_operands(opc.op))]
    /\ UNCHANGED <<insts, numColors, phase, cfg, dom, ssa, alloc, rounds, backend>>

NextOpcode == CallIsOpcodeAssign \/ CallGetOperandCount \/ CallHasExtraOperands

SpecOpcode == InitOpcode /\ [][NextOpcode]_vars

(***************************************************************************)
(* Properties of the projections of IrOpcode, checked on SpecOpcode.       *)
(***************************************************************************)
\* the opcodes the enumeration documents as "dest = ...": operand 0 is the
\* variable the instruction writes
WritesOperand0 ==
    {"ASSIGN", "ASSIGN_ADD", "ASSIGN_SUB", "ASSIGN_MUL", "ASSIGN_DIV",
     "ASSIGN_MOD", "ASSIGN_SIGNED_ADD", "ASSIGN_SIGNED_SUB", "ASSIGN_SIGNED_MUL",
     "ASSIGN_SIGNED_DIV", "ASSIGN_SIGNED_MOD", "ASSIGN_OR", "ASSIGN_AND",
     "ASSIGN_XOR", "ASSIGN_CALL", "ASSIGN_CALL_PTR", "ASSIGN_READ",
     "ASSIGN_ADDROF", "ASSIGN_PHI"}

\* the spill pseudo-opcodes stand outside the classes; the property leaves
\* is_opcode_assign free on them
PseudoOpcodes == {"LOAD", "STORE", "UNLOAD"}

\* C26: every projection returns a value for every member of IrOpcode, and
\* is_opcode_assign is true for exactly the opcodes whose operand 0 is a
\* written destination
ProjectionsTotal ==
    phase = "opcode" =>
        /\ opc.is_assign.st # "KeyError"
        /\ opc.count.st # "KeyError"
        /\ opc.extra.st # "KeyError"
        /\ (opc.is_assign.st = "ok" /\ opc.op \notin PseudoOpcodes) =>
              (opc.is_assign.val <=> opc.op \in WritesOperand0)

\* the same for the members other than CALL_PTR and ASSIGN_CALL_PTR
ProjectionsTotalClassed ==
    (phase = "opcode" /\ opc.op \notin {"CALL_PTR", "ASSIGN_CALL_PTR"}) =>
        /\ opc.is_assign.st # "KeyError"
        /\ opc.count.st # "KeyError"
        /\ opc.extra.st # "KeyError"
        /\ (opc.is_assign.st = "ok" /\ opc.op \notin PseudoOpcodes) =>
              (opc.is_assign.val <=> opc.op \in WritesOperand0)

(***************************************************************************)
(* Properties of the live-out sets, checked on SpecAlloc.                  *)
(***************************************************************************)
CondBranches == {"JE", "JNE", "JL", "JLE", "JG", "JGE"}

\* the variables an instruction reads when the comparands of a conditional
\* branch (slots 1 and 2, the ones translate_procedure lowers to IFx a, b)
\* count as reads
ComparandVars(inst) ==
    IF inst.op \in CondBranches
    THEN {get_id(inst.oprs[j]) : j \in {j \in {2, 3} : IsVar(inst.oprs[j])}}
    ELSE {}
ReadsWithComparands(inst) == ReadVars(inst) \cup ComparandVars(inst)

\* block b reads v before it writes v; block b writes v
ReadFirst(g, b, v) ==
    \E i \in 1..Len(g.blocks[b].insts) :
        /\ v \in ReadsWithComparands(g.blocks[b].insts[i])
        /\ \A j \in 1..(i - 1) :
              ~(Defines(g.blocks[b].insts[j]) /\ get_id(g.blocks[b].insts[j].oprs[1]) = v)
Writes(g, b, v) ==
    \E i \in 1..Len(g.blocks[b].insts) :
        Defines(g.blocks[b].insts[i]) /\ get_id(g.blocks[b].insts[i].oprs[1]) = v

RECURSIVE ReachesRead(_, _, _)
\* the blocks from whose end some path reaches a read of v before any write
ReachesRead(g, v, have) ==
    LET more == have \cup
                {b \in BlockIds(g) :
                    \E n \in Range(g.blocks[b].next) :
                        ReadFirst(g, n, v) \/ (n \in have /\ ~Writes(g, n, v))}
    IN IF more = have THEN have ELSE ReachesRead(g, v, more)

\* C21: LiveAnalyzer.analyze puts v in live_out(B) whenever some path from the
\* end of B reaches a read of v before any write of v, the comparands of a
\* conditional branch counted as reads.
LiveOutCoversReads ==
    phase \in {"cfg", "ssa"} =>
        \A v \in OperandVars(cfg) :
            \A b \in ReachesRead(cfg, v, {}) : v \in LiveAnalyze(cfg, BodyOf(cfg))[b]

\* the same with the comparands left out: the reads of slots 0 .. count - 1
\* and of the extra operands are covered
ReadFirstCounted(g, b, v) ==
    \E i \in 1..Len(g.blocks[b].insts) :
        /\ v \in ReadVars(g.blocks[b].insts[i])
        /\ \A j \in 1..(i - 1) :
              ~(Defines(g.blocks[b].insts[j]) /\ get_id(g.blocks[b].insts[j].oprs[1]) = v)

RECURSIVE ReachesCountedRead(_, _, _)
ReachesCountedRead(g, v, have) ==
    LET more == have \cup
                {b \in BlockIds(g) :
                    \E n \in Range(g.blocks[b].next) :
                        ReadFirstCounted(g, n, v) \/ (n \in have /\ ~Writes(g, n, v))}
    IN IF more = have THEN have ELSE ReachesCountedRead(g, v, more)

LiveOutCoversCountedReads ==
    phase \in {"cfg", "ssa"} =>
        \A v \in OperandVars(cfg) :
            \A b \in ReachesCountedRead(cfg, v, {}) :
                v \in LiveAnalyze(cfg, BodyOf(cfg))[b]

\* a block whose live-out set holds a variable read on a path from its end
SomeReadCovered ==
    /\ phase \in {"cfg", "ssa"}
    /\ \E v \in OperandVars(cfg) : ReachesCountedRead(cfg, v, {}) # {}

(***************************************************************************)
(* Properties of the failures of allocate, checked on SpecAlloc.           *)
(***************************************************************************)
\* the coming round fails in _pick_node_to_spill: the colouring is not
\* complete and every uncoloured live range has been spilled already
NodeNotFound ==
    /\ phase = "alloc"
    /\ LET C == _color_graph(alloc.G, numColors)
       IN /\ C.st = "ok"
          /\ Cardinality(DOMAIN C.color_map) # Len(C.G.nodes)
          /\ SpillCandidates(C.G, C.color_map, alloc.ranges, alloc.spilled) = {}

\* C22: on an SSA-form CFG allocate fails only with the 'node not found'
\* assertion of _pick_node_to_spill: no other step of allocate raises.
FailsOnlyNodeNotFound ==
    [][(phase # "alloc_error" /\ phase' = "alloc_error") => NodeNotFound]_vars

\* every variable the CFG mentions is the destination of an instruction
EveryVarAssigned ==
    \A v \in OperandVars(cfg) :
        \E inst \in Range(Flat(BodyOf(cfg))) : Defines(inst) /\ get_id(inst.oprs[1]) = v

\* the same for the CFGs in which no variable is read without being assigned
FailsOnlyNodeNotFoundAssigned ==
    [][(phase # "alloc_error" /\ phase' = "alloc_error" /\ EveryVarAssigned)
          => NodeNotFound]_vars

====
